---- MODULE Spec2Model ----
(***************************************************************************)
(* Model of the plain_press filtering core: the queue worker of            *)
(* scripts/filter_worker.py, the three judge stages of app/services and    *)
(* the operator action of app/routes.py that writes filter_status.         *)
(*                                                                         *)
(* Scores are tenths (5 stands for 0.5).  The store is PostgreSQL under    *)
(* READ COMMITTED: `articles`, `runs` and `traces` hold committed rows, a  *)
(* worker's uncommitted work lives in its session (`pending`, `obj`) and   *)
(* the row lock an uncommitted UPDATE holds is `rowLock`.                  *)
(***************************************************************************)
EXTENDS Integers, Sequences, FiniteSets, TLC

\* ------------------------------------------------------------------ bounds
MaxDisturbances == 1

Workers == {"w1", "w2"}
Items == {"a1", "a2"}

\* ------------------------------------------------------- program constants
\* FILTER_WORKER_BATCH_SIZE (default 1); 2 so that the for loop has a second
\* iteration.  Thresholds are 0.5 in tenths.
BATCH_SIZE == 2
WOW_THRESHOLD == 5
VALUES_THRESHOLD == 5
SLEEP_INTERVAL == 60
ValuesThresholds == {0, VALUES_THRESHOLD}
MIN_CONTENT == 50

\* The lengths of an item's content after truncation and strip(): empty, one
\* character short of the News Check minimum, and the minimum.
ContentLengths == {0, MIN_CONTENT - 1, MIN_CONTENT}

\* The deployments explored: two worker processes racing for one queued
\* item; one worker service with two queued items, started again (as w2)
\* after its process has ended; one worker with one item and the judge's
\* answers enumerated in full; one batch invocation of run_pipeline; one call
\* of run_pipeline_for_article.  FILTER_VALUES_THRESHOLD is read from the
\* environment of the process: the last two are explored with the default
\* and with 0, and with each content length.
Deployments ==
    {[workers |-> {"w1", "w2"}, queue |-> {"a1"}, batch |-> FALSE, single |-> FALSE,
      serial |-> FALSE, detail |-> FALSE, values_threshold |-> VALUES_THRESHOLD,
      content |-> MIN_CONTENT],
     [workers |-> {"w1", "w2"}, queue |-> {"a1", "a2"}, batch |-> FALSE, single |-> FALSE,
      serial |-> TRUE, detail |-> FALSE, values_threshold |-> VALUES_THRESHOLD,
      content |-> MIN_CONTENT],
     [workers |-> {}, queue |-> {}, batch |-> TRUE, single |-> FALSE,
      serial |-> FALSE, detail |-> FALSE, values_threshold |-> VALUES_THRESHOLD,
      content |-> MIN_CONTENT]}
    \cup {[workers |-> {"w1"}, queue |-> {"a1"}, batch |-> FALSE, single |-> FALSE,
           serial |-> FALSE, detail |-> TRUE, values_threshold |-> t, content |-> c] :
              t \in ValuesThresholds, c \in ContentLengths}
    \cup {[workers |-> {}, queue |-> {}, batch |-> FALSE, single |-> TRUE,
           serial |-> FALSE, detail |-> TRUE, values_threshold |-> t, content |-> c] :
              t \in ValuesThresholds, c \in ContentLengths}
BatchInputs == {<<>>, <<"a1">>, <<"a1", "a2">>}

NoWorker == "no_worker"
NoItem == "no_item"
NoRun == 0
NoScore == -1
NoCount == -1

FilterStatus == {"unfiltered", "filtering", "passed", "rejected"}
Categories == {"news_article", "event_listing"}
RawScores == {-2, 3, 5, 12}
Reasonings == {"", "because"}

VARIABLES
    articles,            \* committed rows of table articles, by row id
    rowLock,             \* row lock held by an uncommitted claim
    runs,                \* committed rows of table pipeline_runs (id = index)
    traces,              \* committed rows of table filter_traces, in insertion order
    pc,                  \* position of each worker process in run_worker_loop
    shutdown_requested,  \* the module-level flag of each worker process
    current_run_id,
    filter1_pass, filter2_pass, filter3_pass,
    batch_i,             \* index of the for loop over range(BATCH_SIZE)
    article,             \* id of the row the worker's `article` refers to
    loaded,              \* attribute values of `article` as loaded from the store
    obj,                 \* attribute values of `article` in memory
    pending,             \* FilterTrace objects added to the session, not committed
    outcome,             \* (passed, rejection_stage) of process_article_with_tracing
    invoked,             \* history: stage calls made for each item
    claims,              \* history: the Runs whose worker claimed each item
    claimsAfterSignal,   \* history: claims a worker made with its flag set
    slept,               \* seconds of the time.sleep that ended the worker's last iteration
    disturbances,        \* crashes, store failures and operator actions so far
    b_pc,                \* position of the batch invocation in run_pipeline
    b_articles,          \* run_pipeline's argument
    b_i,                 \* index of the article the for loop is at
    b_run_id,
    b_result2,           \* score of result2 while the article is at Values Fit
    filter1_pass_count, filter2_pass_count, filter3_pass_count,
    passed_articles, failed_articles,
    TRACING_ENABLED,     \* FILTER_TRACING_ENABLED of the batch process
    s_pc,                \* position of the call of run_pipeline_for_article
    s_result2,           \* result2 of that call
    s_result,            \* the SingleArticleResult it returns
    deployment,          \* the deployment this behaviour is about
    content,             \* truncate_content: the article's content, a sequence of characters
    limit,               \* truncate_content: the character budget
    submitted,           \* the text each stage has put into its prompt
    rule_table,          \* load_filter_rules: the rows of filter_rules, in query order
    rules,               \* load_filter_rules: the dict it returned
    now,                 \* retention: the current day
    pipeline_runs,       \* retention: rows of pipeline_runs, with their start day
    filter_traces,       \* retention: rows of filter_traces, with their creation day
    article_refs,        \* retention: articles.last_run_id of the committed items
    live,                \* retention: the worker process and its Run
    sweep                \* retention: the session of cleanup_old_traces

vars == <<articles, rowLock, runs, traces, pc, shutdown_requested,
          current_run_id, filter1_pass, filter2_pass, filter3_pass, batch_i, article, loaded, obj, pending, outcome,
          invoked, claims, claimsAfterSignal, slept, disturbances, deployment,
          b_pc, b_articles, b_i, b_run_id, b_result2, filter1_pass_count,
          filter2_pass_count, filter3_pass_count, passed_articles,
          failed_articles, TRACING_ENABLED, s_pc, s_result2, s_result,
          content, limit, submitted, rule_table, rules,
          now, pipeline_runs, filter_traces, article_refs, live, sweep>>

\* The variables of the pipeline processes.
pipelineVars == <<articles, rowLock, runs, traces, pc, shutdown_requested,
          current_run_id, filter1_pass, filter2_pass, filter3_pass, batch_i, article, loaded, obj, pending, outcome,
          invoked, claims, claimsAfterSignal, slept, disturbances, deployment,
          b_pc, b_articles, b_i, b_run_id, b_result2, filter1_pass_count,
          filter2_pass_count, filter3_pass_count, passed_articles,
          failed_articles, TRACING_ENABLED, s_pc, s_result2, s_result>>

\* The variables of the functions examined on their own.
truncateVars == <<content, limit, submitted>>
rulesVars == <<rule_table, rules>>

\* What no step of a pipeline process changes.
\* The variables of the retention cleanup and of the worker beside it.
retentionVars == <<now, pipeline_runs, filter_traces, article_refs, live, sweep>>

fixedVars == <<deployment, truncateVars, rulesVars, retentionVars>>

storeVars == <<articles, rowLock, runs, traces, fixedVars>>
counterVars == <<filter1_pass, filter2_pass, filter3_pass>>
itemVars == <<article, loaded, obj, pending, outcome>>
workerVars == <<pc, shutdown_requested, current_run_id, counterVars, batch_i,
                itemVars, claimsAfterSignal, slept>>
batchCounts == <<filter1_pass_count, filter2_pass_count, filter3_pass_count>>
singleVars == <<s_pc, s_result2, s_result>>
batchVars == <<b_pc, b_articles, b_i, b_run_id, b_result2, batchCounts, passed_articles,
               failed_articles, TRACING_ENABLED>>

\* ---------------------------------------------------------------- helpers
\* Python's `x or default` on a float: 0.0 is falsy.
or_default(x, default) == IF x = 0 THEN default ELSE x

Max(a, b) == IF a >= b THEN a ELSE b
Min(a, b) == IF a <= b THEN a ELSE b

NoNotes == [kind |-> "", stage |-> "", reasoning |-> "", wow |-> NoScore, values |-> NoScore]
NoVerdict == [passed |-> FALSE, category |-> "null", score |-> NoScore, reasoning |-> ""]
NoResult == [passed |-> FALSE, filter_score |-> NoScore, filter_notes |-> <<>>,
             content_type |-> "null", wow_score |-> NoScore]
NoOutcome == [passed |-> FALSE, rejection_stage |-> "unset"]

\* A row as the ingestion collaborator inserts it: filter_status takes the
\* server default, status follows the ingestion score.
IngestedRow(score) ==
    [filter_status |-> "unfiltered",
     status |-> IF score >= 5 THEN "pending" ELSE "rejected",
     filter_score |-> score,
     filter_notes |-> NoNotes,
     content_type |-> "null",
     wow_score |-> NoScore,
     last_run_id |-> NoRun]

NoObj == IngestedRow(0)

Alive(w) == pc[w] \notin {"off", "crashed", "exited", "failed"}

\* ------------------------------------------------------------ judge stages
\* What the judging service call does: a parsed JSON answer, a failure of the
\* call or of the parse (caught inside the stage), or an exception raised
\* before the stage's try block (the client constructor).  With
\* "timeout_then_json" the call times out and a repeated call would, at the
\* third attempt, get the answer the response carries.
Response(kind, is_news, category, score, reasoning) ==
    [kind |-> kind, is_news |-> is_news, category |-> category, score |-> score,
     reasoning |-> reasoning]

\* A News Check that calls the judge whatever the length of the content.
NewsResponsesAnyLength ==
    IF deployment.detail
    THEN [kind : {"json"}, is_news : BOOLEAN, category : Categories,
          score : {0}, reasoning : Reasonings]
         \cup [kind : {"api_error", "malformed", "raise"}, is_news : {FALSE},
               category : {"news_article"}, score : {0}, reasoning : {""}]
    ELSE {Response("json", TRUE, "news_article", 0, "because"),
          Response("json", FALSE, "event_listing", 0, "because"),
          Response("raise", FALSE, "news_article", 0, "")}

\* filter_news_check, lines 115-131 and 142-182: what one invocation meets.
\* The client is constructed first ("raise" when that fails); content
\* shorter than MIN_CONTENT returns before any call ("short_content");
\* otherwise the judge is called and answers, fails or answers garbage.
NewsResponses ==
    IF deployment.content < MIN_CONTENT
    THEN {Response("short_content", FALSE, "news_article", 0, ""),
          Response("raise", FALSE, "news_article", 0, "")}
    ELSE IF deployment.detail
    THEN [kind : {"json"}, is_news : BOOLEAN, category : Categories,
          score : {0}, reasoning : Reasonings]
         \cup [kind : {"api_error", "malformed", "raise"}, is_news : {FALSE},
               category : {"news_article"}, score : {0}, reasoning : {""}]
    ELSE {Response("json", TRUE, "news_article", 0, "because"),
          Response("json", FALSE, "event_listing", 0, "because"),
          Response("raise", FALSE, "news_article", 0, "")}

ScoreResponses ==
    IF deployment.detail
    THEN [kind : {"json"}, is_news : {FALSE}, category : {"news_article"},
          score : RawScores, reasoning : Reasonings]
         \cup [kind : {"api_error", "malformed", "raise"}, is_news : {FALSE},
               category : {"news_article"}, score : {0}, reasoning : {""}]
         \cup {Response("timeout_then_json", FALSE, "news_article", 7, "because")}
    ELSE {Response("json", FALSE, "news_article", 12, "because"),
          Response("json", FALSE, "news_article", 3, "because"),
          Response("raise", FALSE, "news_article", 0, "")}

\* The metrics of the judge's usage and of the clock are kept as 0 (the
\* literal zero the code returns) or 1 (a measured amount).
filter_news_check(resp) ==
    CASE resp.kind = "short_content" ->
            [passed |-> FALSE, category |-> "other_non_news", score |-> NoScore,
             reasoning |-> "Insufficient content to evaluate",
             input_tokens |-> 0, output_tokens |-> 0, latency_ms |-> 0]
      [] resp.kind = "json" ->
            [passed |-> resp.is_news, category |-> resp.category, score |-> NoScore,
             reasoning |-> resp.reasoning,
             input_tokens |-> 1, output_tokens |-> 1, latency_ms |-> 1]
      [] OTHER ->
            [passed |-> FALSE, category |-> "other_non_news", score |-> NoScore,
             reasoning |-> "Filter error",
             input_tokens |-> 0, output_tokens |-> 0, latency_ms |-> 1]

\* A Wow Factor that passes only scores above the threshold.
filter_wow_factor_strict(resp) ==
    IF resp.kind = "json"
    THEN LET score == Max(0, Min(10, resp.score))
         IN [passed |-> score > WOW_THRESHOLD, category |-> "null", score |-> score,
             reasoning |-> resp.reasoning]
    ELSE [passed |-> FALSE, category |-> "null", score |-> 0,
          reasoning |-> "Filter error"]

filter_wow_factor(resp) ==
    IF resp.kind = "json"
    THEN LET score == Max(0, Min(10, resp.score))
         IN [passed |-> score >= WOW_THRESHOLD, category |-> "null", score |-> score,
             reasoning |-> resp.reasoning]
    ELSE [passed |-> FALSE, category |-> "null", score |-> 0,
          reasoning |-> "Filter error"]

\* A Values Fit whose error verdict carries no error text.
filter_values_fit_silent(resp) ==
    IF resp.kind = "json"
    THEN LET score == Max(0, Min(10, resp.score))
         IN [passed |-> score >= deployment.values_threshold, category |-> "null", score |-> score,
             reasoning |-> resp.reasoning]
    ELSE [passed |-> FALSE, category |-> "null", score |-> 0, reasoning |-> ""]

\* A Values Fit that reports the judge's score as it came.
filter_values_fit_unclamped(resp) ==
    IF resp.kind = "json"
    THEN [passed |-> resp.score >= deployment.values_threshold, category |-> "null",
          score |-> resp.score, reasoning |-> resp.reasoning]
    ELSE [passed |-> FALSE, category |-> "null", score |-> 0,
          reasoning |-> "Filter error"]

filter_values_fit(resp) ==
    IF resp.kind = "json"
    THEN LET score == Max(0, Min(10, resp.score))
         IN [passed |-> score >= deployment.values_threshold, category |-> "null", score |-> score,
             reasoning |-> resp.reasoning]
    ELSE [passed |-> FALSE, category |-> "null", score |-> 0,
          reasoning |-> "Filter error"]

\* ------------------------------------------------------------ bookkeeping
\* A Run created without the queue depth.
create_worker_run_no_input(queue_size) ==
    [status |-> "running", input_count |-> 0,
     filter1_pass_count |-> NoCount, filter2_pass_count |-> NoCount,
     filter3_pass_count |-> NoCount, completed |-> FALSE, error_message |-> ""]

create_worker_run(queue_size) ==
    [status |-> "running", input_count |-> queue_size,
     filter1_pass_count |-> NoCount, filter2_pass_count |-> NoCount,
     filter3_pass_count |-> NoCount, completed |-> FALSE, error_message |-> ""]

\* A trace whose decision does not follow the verdict.
record_trace_pass(run_id, item, filter_name, filter_order, verdict) ==
    [run_id |-> run_id, article_url |-> item, filter_name |-> filter_name,
     filter_order |-> filter_order,
     decision |-> "pass",
     score |-> verdict.score,
     reasoning |-> verdict.reasoning]

record_trace(run_id, item, filter_name, filter_order, verdict) ==
    [run_id |-> run_id, article_url |-> item, filter_name |-> filter_name,
     filter_order |-> filter_order,
     decision |-> IF verdict.passed THEN "pass" ELSE "reject",
     score |-> verdict.score,
     reasoning |-> verdict.reasoning]

update_run_counts(run, f1, f2, f3) ==
    [run EXCEPT !.filter1_pass_count = f1, !.filter2_pass_count = f2,
                !.filter3_pass_count = f3]

\* A finalization that stamps the Run but leaves its status.
finalize_run_unmarked(run, status) ==
    [run EXCEPT !.completed = TRUE, !.error_message = ""]

finalize_run(run, status) ==
    [run EXCEPT !.status = status, !.completed = TRUE, !.error_message = ""]

get_queue_stats(status) ==
    Cardinality({i \in DOMAIN articles : articles[i].filter_status = status})

\* A claim that selects on the wrong status.
ClaimableFiltering ==
    {i \in DOMAIN articles : articles[i].filter_status = "filtering"
                             /\ rowLock[i] = NoWorker}

\* A claim that also takes rows left filtering.
ClaimableOrFiltering ==
    {i \in DOMAIN articles : articles[i].filter_status \in {"unfiltered", "filtering"}
                             /\ rowLock[i] = NoWorker}

\* A claim whose inner SELECT takes no row lock and skips none.
ClaimableIgnoringLocks ==
    {i \in DOMAIN articles : articles[i].filter_status = "unfiltered"}

\* Rows the inner SELECT ... FOR UPDATE SKIP LOCKED of the claim may return.
Claimable == {i \in DOMAIN articles : articles[i].filter_status = "unfiltered"
                                      /\ rowLock[i] = NoWorker}

\* A commit that writes the item's filter status and none of its other
\* attributes.
FlushStatusOnly(row, ld, ob) == [row EXCEPT !.filter_status = ob.filter_status]

\* A commit that writes the session's Trace rows and leaves the item's row
\* for later.
FlushTracesOnly(row, ld, ob) == row

\* The UPDATE a session flush issues: only attributes whose in-memory value
\* differs from the loaded one are written.
Flush(row, ld, ob) ==
    [f \in DOMAIN row |-> IF ob[f] # ld[f] THEN ob[f] ELSE row[f]]

\* --------------------------------------------------------------- initially
PipelineInit(d) ==
    /\ articles = [i \in d.queue |-> IF i = "a1" THEN IngestedRow(7) ELSE IngestedRow(0)]
    /\ pc = [w \in Workers |-> IF w \in d.workers THEN "start" ELSE "off"]
    /\ rowLock = [i \in Items |-> NoWorker]
    /\ runs = <<>>
    /\ traces = [i \in Items |-> <<>>]
    /\ shutdown_requested = [w \in Workers |-> FALSE]
    /\ current_run_id = [w \in Workers |-> NoRun]
    /\ filter1_pass = [w \in Workers |-> 0]
    /\ filter2_pass = [w \in Workers |-> 0]
    /\ filter3_pass = [w \in Workers |-> 0]
    /\ batch_i = [w \in Workers |-> 0]
    /\ article = [w \in Workers |-> NoItem]
    /\ loaded = [w \in Workers |-> NoObj]
    /\ obj = [w \in Workers |-> NoObj]
    /\ pending = [w \in Workers |-> <<>>]
    /\ outcome = [w \in Workers |-> NoOutcome]
    /\ invoked = [i \in Items |-> <<>>]
    /\ claims = [i \in Items |-> <<>>]
    /\ claimsAfterSignal = [w \in Workers |-> 0]
    /\ slept = [w \in Workers |-> 0]
    /\ disturbances = 0
    /\ b_pc = IF d.batch THEN "start" ELSE "off"
    /\ b_articles \in (IF d.batch THEN BatchInputs ELSE {<<>>})
    /\ b_i = 1
    /\ b_run_id = NoRun
    /\ b_result2 = NoScore
    /\ filter1_pass_count = 0
    /\ filter2_pass_count = 0
    /\ filter3_pass_count = 0
    /\ passed_articles = <<>>
    /\ failed_articles = <<>>
    /\ TRACING_ENABLED \in (IF d.batch THEN BOOLEAN ELSE {TRUE})
    /\ s_pc = IF d.single THEN "load_rules" ELSE "off"
    /\ s_result2 = NoVerdict
    /\ s_result = NoResult
    /\ deployment = d

\* No function is examined on its own.
NotSubmitted == <<"not submitted">>
NoRules == [must_have |-> <<>>, must_avoid |-> <<>>]

TruncateOff ==
    /\ content = <<>>
    /\ limit = 0
    /\ submitted = [f \in {} |-> NotSubmitted]

RulesOff ==
    /\ rule_table = <<>>
    /\ rules = NoRules

NoSweep == [pc |-> "idle", cutoff |-> 0, deleted |-> {}, orphan_runs |-> {}]

RetentionOff ==
    /\ now = 0
    /\ pipeline_runs = <<>>
    /\ filter_traces = {}
    /\ article_refs = <<>>
    /\ live = [pc |-> "off", run_id |-> NoRun, commits |-> 0, rejected |-> 0]
    /\ sweep = NoSweep

Init ==
    /\ \E d \in Deployments : PipelineInit(d)
    /\ TruncateOff
    /\ RulesOff
    /\ RetentionOff

\* A store operation either succeeds or raises; failures are budgeted.
StoreOutcomes == IF disturbances < MaxDisturbances THEN {TRUE, FALSE} ELSE {TRUE}
Fault(ok) == disturbances' = IF ok THEN disturbances ELSE disturbances + 1

\* Leaving the item being processed: the session is closed and rolled back.
DropItem(w) ==
    /\ article' = [article EXCEPT ![w] = NoItem]
    /\ loaded' = [loaded EXCEPT ![w] = NoObj]
    /\ obj' = [obj EXCEPT ![w] = NoObj]
    /\ pending' = [pending EXCEPT ![w] = <<>>]
    /\ outcome' = [outcome EXCEPT ![w] = NoOutcome]


\* The memory of a process that has ended is gone.
ProcessEnds(w) ==
    /\ shutdown_requested' = [shutdown_requested EXCEPT ![w] = FALSE]
    /\ current_run_id' = [current_run_id EXCEPT ![w] = NoRun]
    /\ filter1_pass' = [filter1_pass EXCEPT ![w] = 0]
    /\ filter2_pass' = [filter2_pass EXCEPT ![w] = 0]
    /\ filter3_pass' = [filter3_pass EXCEPT ![w] = 0]
    /\ batch_i' = [batch_i EXCEPT ![w] = 0]
    /\ claimsAfterSignal' = [claimsAfterSignal EXCEPT ![w] = 0]

\* ------------------------------------------------------------- the worker
\* run_worker_loop, lines 310-326: counters, rules, the session's Run.
StartWorker(w) ==
    /\ pc[w] = "start"
    /\ deployment.serial /\ w = "w2" => pc["w1"] \in {"crashed", "exited", "failed"}
    /\ \E ok \in StoreOutcomes :
         /\ Fault(ok)
         /\ IF ok
            THEN /\ runs' = Append(runs, create_worker_run(get_queue_stats("unfiltered")))
                 /\ current_run_id' = [current_run_id EXCEPT ![w] = Len(runs) + 1]
                 /\ pc' = [pc EXCEPT ![w] = "loop_test"]
                 /\ UNCHANGED shutdown_requested
            ELSE /\ pc' = [pc EXCEPT ![w] = "failed"]
                 /\ shutdown_requested' = [shutdown_requested EXCEPT ![w] = FALSE]
                 /\ UNCHANGED <<runs, current_run_id>>
    /\ UNCHANGED <<batchVars, singleVars, slept, fixedVars, articles, rowLock, traces, counterVars, batch_i,
                   itemVars, invoked, claims, claimsAfterSignal>>

\* lines 328-346: while not shutdown_requested; queue check; on an empty
\* queue flush the counts and sleep.
CheckQueue(w) ==
    /\ pc[w] = "loop_test"
    /\ IF shutdown_requested[w]
       THEN /\ pc' = [pc EXCEPT ![w] = "finalize"]
            /\ slept' = [slept EXCEPT ![w] = 0]
            /\ UNCHANGED <<runs, batch_i, disturbances>>
       ELSE \E ok \in StoreOutcomes :
            /\ Fault(ok)
            /\ IF ~ok
               THEN /\ pc' = [pc EXCEPT ![w] = "loop_test"]
                    /\ slept' = [slept EXCEPT ![w] = 5]
                    /\ UNCHANGED <<runs, batch_i>>
               ELSE IF get_queue_stats("unfiltered") = 0
               THEN /\ runs' = [runs EXCEPT ![current_run_id[w]] =
                                   update_run_counts(@, filter1_pass[w], filter2_pass[w],
                                                     filter3_pass[w])]
                    /\ pc' = [pc EXCEPT ![w] = "loop_test"]
                    /\ slept' = [slept EXCEPT ![w] = SLEEP_INTERVAL]
                    /\ UNCHANGED batch_i
               ELSE /\ pc' = [pc EXCEPT ![w] = "batch_test"]
                    /\ batch_i' = [batch_i EXCEPT ![w] = 0]
                    /\ slept' = [slept EXCEPT ![w] = 0]
                    /\ UNCHANGED runs
    /\ UNCHANGED <<batchVars, singleVars, fixedVars, articles, rowLock, traces, shutdown_requested, current_run_id,
                   counterVars, itemVars, invoked, claims, claimsAfterSignal>>

\* A for loop that does not look at the flag before claiming.
BatchTestIgnoringFlag(w) ==
    /\ pc[w] = "batch_test"
    /\ pc' = [pc EXCEPT ![w] = IF batch_i[w] >= BATCH_SIZE
                                THEN "update_counts" ELSE "claim"]
    /\ UNCHANGED <<batchVars, singleVars, slept, storeVars, shutdown_requested, current_run_id, counterVars,
                   batch_i, itemVars, invoked, claims, claimsAfterSignal, disturbances>>

\* lines 349-351: for _ in range(BATCH_SIZE): if shutdown_requested: break
BatchTest(w) ==
    /\ pc[w] = "batch_test"
    /\ pc' = [pc EXCEPT ![w] = IF batch_i[w] >= BATCH_SIZE \/ shutdown_requested[w]
                                THEN "update_counts" ELSE "claim"]
    /\ UNCHANGED <<batchVars, singleVars, slept, storeVars, shutdown_requested, current_run_id, counterVars,
                   batch_i, itemVars, invoked, claims, claimsAfterSignal, disturbances>>

\* claim_next_article, lines 135-151: the UPDATE locks one unfiltered row that
\* no other transaction has locked, or finds none.
claim_next_article(w) ==
    /\ pc[w] = "claim"
    /\ \E ok \in StoreOutcomes :
         /\ Fault(ok)
         /\ IF ~ok
            THEN /\ pc' = [pc EXCEPT ![w] = "loop_test"]
                 /\ slept' = [slept EXCEPT ![w] = 5]
                 /\ UNCHANGED <<rowLock, article, claimsAfterSignal>>
            ELSE IF Claimable = {}
            THEN /\ pc' = [pc EXCEPT ![w] = "update_counts"]
                 /\ UNCHANGED <<rowLock, article, claimsAfterSignal, slept>>
            ELSE \E i \in Claimable :
                 /\ rowLock' = [rowLock EXCEPT ![i] = w]
                 /\ article' = [article EXCEPT ![w] = i]
                 /\ claimsAfterSignal' =
                      [claimsAfterSignal EXCEPT ![w] =
                          IF shutdown_requested[w] THEN @ + 1 ELSE @]
                 /\ pc' = [pc EXCEPT ![w] = "claim_commit"]
                 /\ UNCHANGED slept
    /\ UNCHANGED <<batchVars, singleVars, fixedVars, articles, runs, traces, shutdown_requested, current_run_id,
                   counterVars, batch_i, loaded, obj, pending, outcome, invoked, claims>>

\* claim_next_article, lines 153-155: commit the claim, load the Article.
\* The commit may fail (the claim is rolled back) and so may the query that
\* follows it (the claim stays committed).
ClaimCommit(w) ==
    /\ pc[w] = "claim_commit"
    /\ rowLock' = [rowLock EXCEPT ![article[w]] = NoWorker]
    /\ \E committed \in StoreOutcomes, queried \in StoreOutcomes :
         /\ committed \/ queried
         /\ Fault(committed /\ queried)
         /\ LET row == [articles[article[w]] EXCEPT !.filter_status = "filtering"]
            IN /\ articles' = IF committed
                              THEN [articles EXCEPT ![article[w]] = row]
                              ELSE articles
               /\ claims' = IF committed
                            THEN [claims EXCEPT ![article[w]] = Append(@, current_run_id[w])]
                            ELSE claims
               /\ IF committed /\ queried
                  THEN /\ loaded' = [loaded EXCEPT ![w] = row]
                       /\ obj' = [obj EXCEPT ![w] = row]
                       /\ pc' = [pc EXCEPT ![w] = "news_check"]
                       /\ UNCHANGED <<article, pending, outcome, slept>>
                  ELSE /\ pc' = [pc EXCEPT ![w] = "loop_test"]
                       /\ slept' = [slept EXCEPT ![w] = 5]
                       /\ DropItem(w)
    /\ UNCHANGED <<batchVars, singleVars, fixedVars, runs, traces, shutdown_requested,
                   current_run_id, counterVars, batch_i, invoked, claimsAfterSignal>>

\* A worker that goes on to the next stage whatever the verdict.
GotoNextStage(passed, next) == next

\* process_article_with_tracing, lines 190-194, 223-227, 256-259: a stage
\* that did not pass ends the item's processing, a pass goes on.
Goto(passed, next) == IF passed THEN next ELSE "finish"

\* run_worker_loop, lines 367-381: which pass counters an outcome adds to.
PassedFilter1(passed, stage) ==
    passed \/ stage \notin {"news_check", "news_check_error"}

\* A stage-2 test that forgets the exception of stage 1.
PassedFilter2ButError(passed, stage) ==
    passed \/ stage \notin {"news_check", "wow_factor", "wow_factor_error"}

PassedFilter2(passed, stage) ==
    passed \/ stage \notin {"news_check", "news_check_error",
                            "wow_factor", "wow_factor_error"}

Called(w, stage, what, resp, verdict) ==
    /\ invoked' = [invoked EXCEPT ![article[w]] =
                      Append(@, [stage |-> stage, outcome |-> what,
                                 run_id |-> current_run_id[w],
                                 resp |-> resp, verdict |-> verdict])]
    /\ UNCHANGED claims

\* An exception handler that leaves the notes as they were.
ErrorNotesOmitted(old, stage) == old

\* process_article_with_tracing, lines 198, 231, 263: "Error in <stage>: <e>"
ErrorNotes(old, stage) ==
    [NoNotes EXCEPT !.kind = "Error in", !.stage = stage, !.reasoning = "exception"]

\* A processing that reports every item as passed.
ReturnedPassed(w, passed, stage) ==
    /\ outcome' = [outcome EXCEPT ![w] = [passed |-> TRUE, rejection_stage |-> stage]]
    /\ pc' = [pc EXCEPT ![w] = "finish"]

\* process_article_with_tracing, lines 199, 232, 259, 264, 271: the returns
\* after the last stage and from the exception handlers.
Returned(w, passed, stage) ==
    /\ outcome' = [outcome EXCEPT ![w] = [passed |-> passed, rejection_stage |-> stage]]
    /\ pc' = [pc EXCEPT ![w] = "finish"]

\* process_article_with_tracing, lines 174-199
news_check(w) ==
    /\ pc[w] = "news_check"
    /\ \E resp \in NewsResponses :
         IF resp.kind = "raise"
         THEN /\ Called(w, "news_check", "raise", resp, NoVerdict)
              /\ obj' = [obj EXCEPT ![w].filter_notes = ErrorNotes(@, "news_check")]
              /\ Returned(w, FALSE, "news_check_error")
              /\ UNCHANGED pending
         ELSE LET result1 == filter_news_check(resp)
              IN /\ Called(w, "news_check", IF result1.passed THEN "pass" ELSE "reject", resp, result1)
                 /\ pending' = [pending EXCEPT ![w] =
                       Append(@, record_trace(current_run_id[w], article[w],
                                              "news_check", 1, result1))]
                 /\ IF ~result1.passed
                    THEN /\ obj' = [obj EXCEPT
                               ![w].content_type = result1.category,
                               ![w].filter_score = 0,
                               ![w].filter_notes =
                                   [NoNotes EXCEPT !.kind = "Rejected at",
                                                   !.stage = "news_check",
                                                   !.reasoning = result1.reasoning]]
                         /\ outcome' = [outcome EXCEPT ![w] =
                               [passed |-> FALSE, rejection_stage |-> "news_check"]]
                    ELSE UNCHANGED <<obj, outcome>>
                 /\ pc' = [pc EXCEPT ![w] = Goto(result1.passed, "wow_factor")]
    /\ UNCHANGED <<batchVars, singleVars, slept, storeVars, shutdown_requested, current_run_id, counterVars,
                   batch_i, article, loaded, claimsAfterSignal, disturbances>>

\* process_article_with_tracing, lines 204-232
wow_factor(w) ==
    /\ pc[w] = "wow_factor"
    /\ \E resp \in ScoreResponses :
         IF resp.kind = "raise"
         THEN /\ Called(w, "wow_factor", "raise", resp, NoVerdict)
              /\ obj' = [obj EXCEPT ![w].filter_notes = ErrorNotes(@, "wow_factor")]
              /\ Returned(w, FALSE, "wow_factor_error")
              /\ UNCHANGED pending
         ELSE LET result2 == filter_wow_factor(resp)
              IN /\ Called(w, "wow_factor", IF result2.passed THEN "pass" ELSE "reject", resp, result2)
                 /\ pending' = [pending EXCEPT ![w] =
                       Append(@, record_trace(current_run_id[w], article[w],
                                              "wow_factor", 2, result2))]
                 /\ IF ~result2.passed
                    THEN /\ obj' = [obj EXCEPT
                               ![w].wow_score = result2.score,
                               ![w].content_type = "news_article",
                               ![w].filter_score = 0,
                               ![w].filter_notes =
                                   [NoNotes EXCEPT !.kind = "Rejected at",
                                                   !.stage = "wow_factor",
                                                   !.reasoning = result2.reasoning]]
                         /\ outcome' = [outcome EXCEPT ![w] =
                               [passed |-> FALSE, rejection_stage |-> "wow_factor"]]
                    ELSE /\ obj' = [obj EXCEPT ![w].wow_score = result2.score]
                         /\ UNCHANGED outcome
                 /\ pc' = [pc EXCEPT ![w] = Goto(result2.passed, "values_fit")]
    /\ UNCHANGED <<batchVars, singleVars, slept, storeVars, shutdown_requested, current_run_id, counterVars,
                   batch_i, article, loaded, claimsAfterSignal, disturbances>>

\* process_article_with_tracing, lines 237-271
values_fit(w) ==
    /\ pc[w] = "values_fit"
    /\ \E resp \in ScoreResponses :
         IF resp.kind = "raise"
         THEN /\ Called(w, "values_fit", "raise", resp, NoVerdict)
              /\ obj' = [obj EXCEPT ![w].filter_notes = ErrorNotes(@, "values_fit")]
              /\ Returned(w, FALSE, "values_fit_error")
              /\ UNCHANGED pending
         ELSE LET result3 == filter_values_fit(resp)
              IN /\ Called(w, "values_fit", IF result3.passed THEN "pass" ELSE "reject", resp, result3)
                 /\ pending' = [pending EXCEPT ![w] =
                       Append(@, record_trace(current_run_id[w], article[w],
                                              "values_fit", 3, result3))]
                 /\ IF ~result3.passed
                    THEN /\ obj' = [obj EXCEPT
                               ![w].filter_score = or_default(result3.score, 0),
                               ![w].content_type = "news_article",
                               ![w].filter_notes =
                                   [NoNotes EXCEPT !.kind = "Rejected at",
                                                   !.stage = "values_fit",
                                                   !.reasoning = result3.reasoning]]
                         /\ Returned(w, FALSE, "values_fit")
                    ELSE /\ obj' = [obj EXCEPT
                               ![w].filter_score = or_default(result3.score, 0),
                               ![w].content_type = "news_article",
                               ![w].filter_notes =
                                   [NoNotes EXCEPT !.kind = "Passed all filters",
                                                   !.wow = obj[w].wow_score,
                                                   !.values = result3.score]]
                         /\ Returned(w, TRUE, "none")
    /\ UNCHANGED <<batchVars, singleVars, slept, storeVars, shutdown_requested, current_run_id, counterVars,
                   batch_i, article, loaded, claimsAfterSignal, disturbances>>

\* run_worker_loop, lines 366-391: status, counters, run link, commit.
FinishArticle(w) ==
    /\ pc[w] = "finish"
    /\ LET passed == outcome[w].passed
           rejection_stage == outcome[w].rejection_stage
           final == [obj[w] EXCEPT
                       !.filter_status = IF passed THEN "passed" ELSE "rejected",
                       !.status = IF passed THEN "pending" ELSE "rejected",
                       !.last_run_id = current_run_id[w]]
       IN /\ filter1_pass' = [filter1_pass EXCEPT ![w] =
                 IF PassedFilter1(passed, rejection_stage) THEN @ + 1 ELSE @]
          /\ filter2_pass' = [filter2_pass EXCEPT ![w] =
                 IF PassedFilter2(passed, rejection_stage) THEN @ + 1 ELSE @]
          /\ filter3_pass' = [filter3_pass EXCEPT ![w] = IF passed THEN @ + 1 ELSE @]
          /\ \E ok \in StoreOutcomes :
               /\ Fault(ok)
               /\ IF ok
                  THEN /\ articles' = [articles EXCEPT ![article[w]] =
                                          Flush(@, loaded[w], final)]
                       /\ traces' = [traces EXCEPT ![article[w]] = @ \o pending[w]]
                       /\ batch_i' = [batch_i EXCEPT ![w] = @ + 1]
                       /\ pc' = [pc EXCEPT ![w] = "batch_test"]
                       /\ UNCHANGED slept
                  ELSE /\ pc' = [pc EXCEPT ![w] = "loop_test"]
                       /\ slept' = [slept EXCEPT ![w] = 5]
                       /\ UNCHANGED <<articles, traces, batch_i>>
    /\ DropItem(w)
    /\ UNCHANGED <<batchVars, singleVars, fixedVars, rowLock, runs, shutdown_requested,
                   current_run_id, invoked, claims, claimsAfterSignal>>

\* A count update whose store failure ends the worker process.
UpdateCountsUncaught(w) ==
    /\ pc[w] = "update_counts"
    /\ \E ok \in StoreOutcomes :
         /\ Fault(ok)
         /\ runs' = IF ok
                    THEN [runs EXCEPT ![current_run_id[w]] =
                             update_run_counts(@, filter1_pass[w], filter2_pass[w],
                                               filter3_pass[w])]
                    ELSE runs
         /\ pc' = [pc EXCEPT ![w] = IF ok THEN "loop_test" ELSE "failed"]
         /\ slept' = [slept EXCEPT ![w] = IF ok THEN 1 ELSE 0]
    /\ UNCHANGED <<batchVars, singleVars, fixedVars, articles, rowLock, traces, shutdown_requested, current_run_id,
                   counterVars, batch_i, itemVars, invoked, claims, claimsAfterSignal>>

\* A count update that loads the Run and writes nothing.
UpdateCountsNotWritten(w) ==
    /\ pc[w] = "update_counts"
    /\ \E ok \in StoreOutcomes :
         /\ Fault(ok)
         /\ slept' = [slept EXCEPT ![w] = IF ok THEN 1 ELSE 5]
    /\ runs' = runs
    /\ pc' = [pc EXCEPT ![w] = "loop_test"]
    /\ UNCHANGED <<batchVars, singleVars, fixedVars, articles, rowLock, traces, shutdown_requested, current_run_id,
                   counterVars, batch_i, itemVars, invoked, claims, claimsAfterSignal>>

\* run_worker_loop, lines 393-399: flush the counts after the batch.
UpdateCounts(w) ==
    /\ pc[w] = "update_counts"
    /\ \E ok \in StoreOutcomes :
         /\ Fault(ok)
         /\ runs' = IF ok
                    THEN [runs EXCEPT ![current_run_id[w]] =
                             update_run_counts(@, filter1_pass[w], filter2_pass[w],
                                               filter3_pass[w])]
                    ELSE runs
         /\ slept' = [slept EXCEPT ![w] = IF ok THEN 1 ELSE 5]
    /\ pc' = [pc EXCEPT ![w] = "loop_test"]
    /\ UNCHANGED <<batchVars, singleVars, fixedVars, articles, rowLock, traces, shutdown_requested, current_run_id,
                   counterVars, batch_i, itemVars, invoked, claims, claimsAfterSignal>>

\* run_worker_loop, lines 408-415, and main, lines 429-434.
FinalizeWorker(w) ==
    /\ pc[w] = "finalize"
    /\ \E ok \in StoreOutcomes :
         /\ Fault(ok)
         /\ IF ok
            THEN /\ runs' = [runs EXCEPT ![current_run_id[w]] = finalize_run(@, "completed")]
                 /\ pc' = [pc EXCEPT ![w] = "exited"]
            ELSE /\ pc' = [pc EXCEPT ![w] = "failed"]
                 /\ UNCHANGED runs
    /\ ProcessEnds(w)
    /\ UNCHANGED <<batchVars, singleVars, slept, fixedVars, articles, rowLock, traces, itemVars, invoked, claims>>

\* signal_handler, lines 62-66
signal_handler(w) ==
    /\ Alive(w)
    /\ deployment.serial /\ w = "w2" => pc["w1"] \in {"crashed", "exited", "failed"}
    /\ ~shutdown_requested[w]
    /\ shutdown_requested' = [shutdown_requested EXCEPT ![w] = TRUE]
    /\ UNCHANGED <<batchVars, singleVars, slept, storeVars, pc, current_run_id, counterVars, batch_i, itemVars,
                   invoked, claims, claimsAfterSignal, disturbances>>

\* The process dies (kill -9, host loss): memory is lost, the open
\* transaction is rolled back and its row lock released.
Crash(w) ==
    /\ Alive(w)
    /\ pc[w] # "start"
    /\ disturbances < MaxDisturbances
    /\ disturbances' = disturbances + 1
    /\ pc' = [pc EXCEPT ![w] = "crashed"]
    /\ rowLock' = [i \in Items |-> IF rowLock[i] = w THEN NoWorker ELSE rowLock[i]]
    /\ slept' = [slept EXCEPT ![w] = 0]
    /\ DropItem(w)
    /\ ProcessEnds(w)
    /\ UNCHANGED <<batchVars, singleVars, fixedVars, articles, runs, traces, invoked, claims>>

\* --------------------------------------------------------------- operator
\* An operator action that puts the item back in the queue.
ResetToUnfiltered(row) == [row EXCEPT !.filter_status = "unfiltered"]

\* routes.unreject_article, lines 1190-1192
Unrejected(row) == [row EXCEPT !.status = "pending", !.filter_status = "passed"]

\* routes.unreject_article, lines 1176-1193
unreject_article(i) ==
    /\ disturbances < MaxDisturbances
    /\ disturbances' = disturbances + 1
    /\ rowLock[i] = NoWorker
    /\ ~(articles[i].status = "pending" /\ articles[i].filter_status = "passed")
    /\ articles' = [articles EXCEPT ![i] = Unrejected(@)]
    /\ UNCHANGED <<batchVars, singleVars, slept, fixedVars, rowLock, runs, traces, pc, shutdown_requested,
                   current_run_id, counterVars, batch_i, itemVars, invoked, claims,
                   claimsAfterSignal>>

\* ------------------------------------------------------------- the batch
FilterResult(url, passed, content_type, wow_score, values_score, stage, reason) ==
    [url |-> url, passed |-> passed, content_type |-> content_type,
     wow_score |-> wow_score, values_score |-> values_score,
     rejection_stage |-> stage, rejection_reason |-> reason]

update_pipeline_run(run, status, f1, f2, f3, error_message) ==
    [run EXCEPT !.status = status, !.completed = TRUE,
                !.filter1_pass_count = f1, !.filter2_pass_count = f2,
                !.filter3_pass_count = f3, !.error_message = error_message]

\* run_pipeline uses one session from line 175 to line 372 and its
\* per-article handler (317-326) does not roll it back.  A commit whose
\* flush raises leaves the session's transaction rolled back and inactive:
\* every later commit on the session raises until rollback() is called.  A
\* commit that fails on the connection leaves the session usable.
CommitErrors ==
    IF \E k \in 1..Len(failed_articles) : failed_articles[k].rejection_reason = "flush error"
    THEN {"pending rollback"}
    ELSE {"flush error", "connection error"}

SessionInactive == CommitErrors = {"pending rollback"}

\* The outcomes of a commit on run_pipeline's session.
SessionOutcomes == IF SessionInactive THEN {FALSE} ELSE StoreOutcomes

\* Only a failure of the store itself counts as a disturbance.
SessionFault(ok) ==
    disturbances' = IF ok \/ SessionInactive THEN disturbances ELSE disturbances + 1

\* run_pipeline, lines 175-180: the session and the Run.
create_pipeline_run ==
    /\ b_pc = "start"
    /\ \E ok \in StoreOutcomes :
         /\ Fault(ok)
         /\ IF ok
            THEN /\ runs' = Append(runs, create_worker_run(Len(b_articles)))
                 /\ b_run_id' = Len(runs) + 1
                 /\ b_pc' = "load_rules"
            ELSE /\ b_pc' = "raised"
                 /\ UNCHANGED <<runs, b_run_id>>
    /\ UNCHANGED <<articles, rowLock, traces, fixedVars, workerVars, singleVars, invoked, claims,
                   b_articles, b_i, b_result2, batchCounts, passed_articles,
                   failed_articles, TRACING_ENABLED>>

\* run_pipeline, line 183: load_filter_rules reads the rule table.
b_load_filter_rules ==
    /\ b_pc = "load_rules"
    /\ \E ok \in StoreOutcomes :
         /\ Fault(ok)
         /\ b_pc' = IF ok THEN "for" ELSE "except"
    /\ UNCHANGED <<storeVars, workerVars, singleVars, invoked, claims, b_articles, b_i, b_run_id,
                   b_result2, batchCounts, passed_articles, failed_articles,
                   TRACING_ENABLED>>

\* run_pipeline, line 195: for article in articles
BatchFor ==
    /\ b_pc = "for"
    /\ b_pc' = IF b_i > Len(b_articles) THEN "update_run" ELSE "b_news_check"
    /\ UNCHANGED <<storeVars, workerVars, singleVars, invoked, claims, disturbances, b_articles, b_i,
                   b_run_id, b_result2, batchCounts, passed_articles,
                   failed_articles, TRACING_ENABLED>>

BatchCalled(stage, what, resp, verdict) ==
    /\ invoked' = [invoked EXCEPT ![b_articles[b_i]] =
                      Append(@, [stage |-> stage, outcome |-> what, run_id |-> b_run_id,
                                 resp |-> resp, verdict |-> verdict])]
    /\ UNCHANGED claims

\* run_pipeline, lines 317-326: the per-article handler, then the next article.
BatchError(e) ==
    /\ failed_articles' = Append(failed_articles,
          FilterResult(b_articles[b_i], FALSE, "null", NoScore, NoScore,
                       "error", e))
    /\ b_i' = b_i + 1
    /\ b_pc' = "for"
    /\ b_result2' = NoScore
    /\ UNCHANGED <<traces, batchCounts, passed_articles>>

\* A record_trace that adds the row to the session and leaves the commit
\* to its caller.
BatchTraceNotCommitted(ok, filter_name, filter_order, verdict) ==
    traces' = traces

\* A trace commit that replaces the item's earlier rows by the new row.
BatchTraceOverwrite(ok, filter_name, filter_order, verdict) ==
    traces' = IF TRACING_ENABLED /\ ok
              THEN [traces EXCEPT ![b_articles[b_i]] =
                       <<record_trace(b_run_id, b_articles[b_i], filter_name,
                                      filter_order, verdict)>>]
              ELSE traces

\* filter_pipeline.record_trace, lines 105-123: one row, committed at once.
BatchTrace(ok, filter_name, filter_order, verdict) ==
    traces' = IF TRACING_ENABLED /\ ok
              THEN [traces EXCEPT ![b_articles[b_i]] =
                       Append(@, record_trace(b_run_id, b_articles[b_i], filter_name,
                                              filter_order, verdict))]
              ELSE traces

\* run_pipeline, lines 203-232
b_news_check ==
    /\ b_pc = "b_news_check"
    /\ \E resp \in NewsResponses :
         IF resp.kind = "raise"
         THEN /\ BatchCalled("news_check", "raise", resp, NoVerdict)
              /\ BatchError("exception")
              /\ UNCHANGED disturbances
         ELSE LET result1 == filter_news_check(resp)
              IN /\ BatchCalled("news_check", IF result1.passed THEN "pass" ELSE "reject", resp, result1)
                 /\ \E ok \in (IF TRACING_ENABLED THEN SessionOutcomes ELSE {TRUE}) :
                      /\ SessionFault(ok)
                      /\ IF ~ok
                         THEN \E e \in CommitErrors : BatchError(e)
                         ELSE /\ BatchTrace(ok, "news_check", 1, result1)
                              /\ IF ~result1.passed
                                 THEN /\ failed_articles' = Append(failed_articles,
                                           FilterResult(b_articles[b_i], FALSE,
                                                        result1.category, NoScore, NoScore,
                                                        "news_check", result1.reasoning))
                                      /\ b_i' = b_i + 1
                                      /\ b_pc' = "for"
                                      /\ UNCHANGED <<batchCounts, passed_articles, b_result2>>
                                 ELSE /\ filter1_pass_count' = filter1_pass_count + 1
                                      /\ b_pc' = "b_wow_factor"
                                      /\ UNCHANGED <<filter2_pass_count, filter3_pass_count,
                                                     b_i, passed_articles, failed_articles,
                                                     b_result2>>
    /\ UNCHANGED <<articles, rowLock, runs, fixedVars, workerVars, singleVars, b_articles, b_run_id,
                   TRACING_ENABLED>>

\* run_pipeline, lines 237-267; result2 is kept in the trace just written
b_wow_factor ==
    /\ b_pc = "b_wow_factor"
    /\ \E resp \in ScoreResponses :
         IF resp.kind = "raise"
         THEN /\ BatchCalled("wow_factor", "raise", resp, NoVerdict)
              /\ BatchError("exception")
              /\ UNCHANGED disturbances
         ELSE LET result2 == filter_wow_factor(resp)
              IN /\ BatchCalled("wow_factor", IF result2.passed THEN "pass" ELSE "reject", resp, result2)
                 /\ \E ok \in (IF TRACING_ENABLED THEN SessionOutcomes ELSE {TRUE}) :
                      /\ SessionFault(ok)
                      /\ IF ~ok
                         THEN \E e \in CommitErrors : BatchError(e)
                         ELSE /\ BatchTrace(ok, "wow_factor", 2, result2)
                              /\ IF ~result2.passed
                                 THEN /\ failed_articles' = Append(failed_articles,
                                           FilterResult(b_articles[b_i], FALSE,
                                                        "news_article", result2.score, NoScore,
                                                        "wow_factor", result2.reasoning))
                                      /\ b_i' = b_i + 1
                                      /\ b_pc' = "for"
                                      /\ UNCHANGED <<batchCounts, passed_articles, b_result2>>
                                 ELSE /\ filter2_pass_count' = filter2_pass_count + 1
                                      /\ b_pc' = "b_values_fit"
                                      /\ b_result2' = result2.score
                                      /\ UNCHANGED <<filter1_pass_count, filter3_pass_count,
                                                     b_i, passed_articles, failed_articles>>
    /\ UNCHANGED <<articles, rowLock, runs, fixedVars, workerVars, singleVars, b_articles, b_run_id,
                   TRACING_ENABLED>>

\* run_pipeline, lines 272-315
b_values_fit ==
    /\ b_pc = "b_values_fit"
    /\ \E resp \in ScoreResponses :
         IF resp.kind = "raise"
         THEN /\ BatchCalled("values_fit", "raise", resp, NoVerdict)
              /\ BatchError("exception")
              /\ UNCHANGED disturbances
         ELSE LET result3 == filter_values_fit(resp)
              IN /\ BatchCalled("values_fit", IF result3.passed THEN "pass" ELSE "reject", resp, result3)
                 /\ \E ok \in (IF TRACING_ENABLED THEN SessionOutcomes ELSE {TRUE}) :
                      /\ SessionFault(ok)
                      /\ IF ~ok
                         THEN \E e \in CommitErrors : BatchError(e)
                         ELSE /\ BatchTrace(ok, "values_fit", 3, result3)
                              /\ b_i' = b_i + 1
                              /\ b_pc' = "for"
                              /\ b_result2' = NoScore
                              /\ IF ~result3.passed
                                 THEN /\ failed_articles' = Append(failed_articles,
                                           FilterResult(b_articles[b_i], FALSE,
                                                        "news_article", b_result2,
                                                        result3.score, "values_fit",
                                                        result3.reasoning))
                                      /\ UNCHANGED <<batchCounts, passed_articles>>
                                 ELSE /\ filter3_pass_count' = filter3_pass_count + 1
                                      /\ passed_articles' = Append(passed_articles,
                                           FilterResult(b_articles[b_i], TRUE,
                                                        "news_article", b_result2,
                                                        result3.score, "none", ""))
                                      /\ UNCHANGED <<filter1_pass_count, filter2_pass_count,
                                                     failed_articles>>
    /\ UNCHANGED <<articles, rowLock, runs, fixedVars, workerVars, singleVars, b_articles, b_run_id,
                   TRACING_ENABLED>>

\* run_pipeline, lines 328-359: the final counts, status completed.
BatchUpdateRun ==
    /\ b_pc = "update_run"
    /\ \E ok \in SessionOutcomes :
         /\ SessionFault(ok)
         /\ IF ok
            THEN /\ runs' = [runs EXCEPT ![b_run_id] =
                                update_pipeline_run(@, "completed", filter1_pass_count,
                                                    filter2_pass_count, filter3_pass_count,
                                                    "")]
                 /\ b_pc' = "returned"
            ELSE /\ b_pc' = "except"
                 /\ UNCHANGED runs
    /\ UNCHANGED <<articles, rowLock, traces, fixedVars, workerVars, singleVars, invoked, claims,
                   b_articles, b_i, b_run_id, b_result2, batchCounts,
                   passed_articles, failed_articles, TRACING_ENABLED>>

\* run_pipeline, lines 361-370: status failed with the error text, re-raise.
BatchExcept ==
    /\ b_pc = "except"
    /\ \E ok \in SessionOutcomes :
         /\ SessionFault(ok)
         /\ runs' = IF ok
                    THEN [runs EXCEPT ![b_run_id] =
                             update_pipeline_run(@, "failed", NoCount, NoCount, NoCount,
                                                 "exception")]
                    ELSE runs
    /\ b_pc' = "raised"
    /\ UNCHANGED <<articles, rowLock, traces, fixedVars, workerVars, singleVars, invoked, claims,
                   b_articles, b_i, b_run_id, b_result2, batchCounts,
                   passed_articles, failed_articles, TRACING_ENABLED>>

\* The batch process dies in the middle of run_pipeline.
BatchCrash ==
    /\ b_pc \notin {"off", "start", "returned", "raised", "crashed"}
    /\ disturbances < MaxDisturbances
    /\ disturbances' = disturbances + 1
    /\ b_pc' = "crashed"
    /\ UNCHANGED <<storeVars, workerVars, singleVars, invoked, claims, b_articles, b_i, b_run_id,
                   b_result2, batchCounts, passed_articles, failed_articles,
                   TRACING_ENABLED>>

run_pipeline ==
    \/ create_pipeline_run
    \/ b_load_filter_rules
    \/ BatchFor
    \/ b_news_check
    \/ b_wow_factor
    \/ b_values_fit
    \/ BatchUpdateRun
    \/ BatchExcept

\* ------------------------------------------- run_pipeline_for_article
SingleArticleResult(passed, filter_score, filter_notes, content_type, wow_score) ==
    [passed |-> passed, filter_score |-> filter_score, filter_notes |-> filter_notes,
     content_type |-> content_type, wow_score |-> wow_score]

SingleCalled(stage, what, resp, verdict) ==
    /\ invoked' = [invoked EXCEPT !["a1"] =
                      Append(@, [stage |-> stage, outcome |-> what, run_id |-> NoRun,
                                 resp |-> resp, verdict |-> verdict])]
    /\ UNCHANGED <<storeVars, workerVars, batchVars, claims, disturbances>>

\* run_pipeline_for_article, line 408: outside any try, a failure propagates.
s_load_filter_rules ==
    /\ s_pc = "load_rules"
    /\ \E ok \in StoreOutcomes :
         /\ Fault(ok)
         /\ s_pc' = IF ok THEN "news_check" ELSE "raised"
    /\ UNCHANGED <<storeVars, workerVars, batchVars, invoked, claims, s_result2, s_result>>

\* run_pipeline_for_article, lines 413-434
s_news_check ==
    /\ s_pc = "news_check"
    /\ \E resp \in NewsResponses :
         IF resp.kind = "raise"
         THEN /\ SingleCalled("news_check", "raise", resp, NoVerdict)
              /\ s_result' = SingleArticleResult(FALSE, 0, <<"Error in", "news_check">>,
                                                 "error", NoScore)
              /\ s_pc' = "returned"
         ELSE LET result1 == filter_news_check(resp)
              IN /\ SingleCalled("news_check", IF result1.passed THEN "pass" ELSE "reject",
                                 resp, result1)
                 /\ IF ~result1.passed
                    THEN /\ s_result' = SingleArticleResult(FALSE, 0,
                                  <<"Rejected at", "news_check", result1.reasoning>>,
                                  result1.category, NoScore)
                         /\ s_pc' = "returned"
                    ELSE /\ s_pc' = "wow_factor"
                         /\ UNCHANGED s_result
    /\ UNCHANGED s_result2

\* run_pipeline_for_article, lines 439-461
s_wow_factor ==
    /\ s_pc = "wow_factor"
    /\ \E resp \in ScoreResponses :
         IF resp.kind = "raise"
         THEN /\ SingleCalled("wow_factor", "raise", resp, NoVerdict)
              /\ s_result' = SingleArticleResult(FALSE, 0, <<"Error in", "wow_factor">>,
                                                 "news_article", NoScore)
              /\ s_pc' = "returned"
              /\ UNCHANGED s_result2
         ELSE LET result2 == filter_wow_factor(resp)
              IN /\ SingleCalled("wow_factor", IF result2.passed THEN "pass" ELSE "reject",
                                 resp, result2)
                 /\ s_result2' = result2
                 /\ IF ~result2.passed
                    THEN /\ s_result' = SingleArticleResult(FALSE, 0,
                                  <<"Rejected at", "wow_factor", result2.reasoning>>,
                                  "news_article", result2.score)
                         /\ s_pc' = "returned"
                    ELSE /\ s_pc' = "values_fit"
                         /\ UNCHANGED s_result

\* run_pipeline_for_article, lines 466-504
s_values_fit ==
    /\ s_pc = "values_fit"
    /\ \E resp \in ScoreResponses :
         IF resp.kind = "raise"
         THEN /\ SingleCalled("values_fit", "raise", resp, NoVerdict)
              /\ s_result' = SingleArticleResult(FALSE, 0, <<"Error in", "values_fit">>,
                                                 "news_article", s_result2.score)
         ELSE LET result3 == filter_values_fit(resp)
              IN /\ SingleCalled("values_fit", IF result3.passed THEN "pass" ELSE "reject",
                                 resp, result3)
                 /\ s_result' =
                       IF ~result3.passed
                       THEN SingleArticleResult(FALSE, or_default(result3.score, 0),
                                <<"Rejected at", "values_fit", result3.reasoning>>,
                                "news_article", s_result2.score)
                       ELSE SingleArticleResult(TRUE, or_default(result3.score, 7),
                                <<"Passed all filters", s_result2.reasoning,
                                  result3.reasoning>>,
                                "news_article", s_result2.score)
    /\ s_pc' = "returned"
    /\ UNCHANGED s_result2

run_pipeline_for_article ==
    \/ s_load_filter_rules
    \/ s_news_check
    \/ s_wow_factor
    \/ s_values_fit

WorkerStep(w) ==
    \/ StartWorker(w)
    \/ CheckQueue(w)
    \/ BatchTest(w)
    \/ claim_next_article(w)
    \/ ClaimCommit(w)
    \/ news_check(w)
    \/ wow_factor(w)
    \/ values_fit(w)
    \/ FinishArticle(w)
    \/ UpdateCounts(w)
    \/ FinalizeWorker(w)

Next ==
    \/ \E w \in Workers : WorkerStep(w)
    \/ \E w \in Workers : signal_handler(w)
    \/ \E w \in Workers : Crash(w)
    \/ \E i \in DOMAIN articles : unreject_article(i)
    \/ run_pipeline
    \/ BatchCrash
    \/ run_pipeline_for_article

Spec == Init /\ [][Next]_vars

\* The workers alone, with no crash, no store failure and no operator
\* action; every worker process that can take a step eventually takes one
\* (its sleeps are finite).
LiveStep(w) ==
    /\ WorkerStep(w) \/ signal_handler(w)
    /\ disturbances' = disturbances

LiveNext == \E w \in Workers : LiveStep(w)

LiveSpec ==
    Init /\ [][LiveNext]_vars /\ \A w \in Workers : WF_vars(WorkerStep(w) /\ LiveStep(w))

\* ------------------------------------------------------------ properties
Holders(i) == {w \in Workers : article[w] = i}

\* A successful claim by w: claim_next_article returns the Article.
Claimed(w) == pc[w] = "claim_commit" /\ pc'[w] = "news_check"

StageOrder == <<"news_check", "wow_factor", "values_fit">>

\* The committed Trace rows of an item: stage, stage order, decision.
Decisions(i) ==
    [k \in 1..Len(traces[i]) |->
        <<traces[i][k].filter_name, traces[i][k].filter_order, traces[i][k].decision>>]

\* The worker has committed item i as rejected by a verdict of `stage`.
WorkerRejectedAt(i, stage) ==
    /\ i \in DOMAIN articles
    /\ articles[i].filter_notes.kind = "Rejected at"
    /\ articles[i].filter_notes.stage = stage

\* run_pipeline has put item i among the rejected, rejected at `stage`.
BatchRejectedAt(i, stage) ==
    \E k \in 1..Len(failed_articles) :
        failed_articles[k].url = i /\ failed_articles[k].rejection_stage = stage

\* Stages are invoked in order, none after a reject verdict, and no Trace
\* row follows a reject row.
NoStageAfterReject ==
    \A i \in Items :
        /\ \A k \in 1..Len(invoked[i]) :
              /\ invoked[i][k].stage = StageOrder[k]
              /\ invoked[i][k].outcome = "reject" => k = Len(invoked[i])
        /\ \A k \in 1..Len(traces[i]) :
              traces[i][k].decision = "reject" => k = Len(traces[i])

\* The Trace rows of the items rejected at News Check and at Wow Factor;
\* `tracing` says whether run_pipeline's rows are expected.
RejectedRows(tracing) ==
    \A i \in Items :
        /\ WorkerRejectedAt(i, "news_check") \/ (tracing /\ BatchRejectedAt(i, "news_check"))
              => Decisions(i) = << <<"news_check", 1, "reject">> >>
        /\ WorkerRejectedAt(i, "wow_factor") \/ (tracing /\ BatchRejectedAt(i, "wow_factor"))
              => Decisions(i) = << <<"news_check", 1, "pass">>,
                                  <<"wow_factor", 2, "reject">> >>

\* The stage calls made for item i: stage and outcome.
Calls(i) == [k \in 1..Len(invoked[i]) |-> <<invoked[i][k].stage, invoked[i][k].outcome>>]

AllPassed(i) ==
    Calls(i) = << <<"news_check", "pass">>, <<"wow_factor", "pass">>,
                  <<"values_fit", "pass">> >>

\* Worker w commits the item it holds (run_worker_loop, line 387).
Finalized(w) == pc[w] = "finish" /\ pc'[w] = "batch_test"

\* The last stage call made for item i raised.
LastCallRaised(i) ==
    Len(invoked[i]) > 0 /\ invoked[i][Len(invoked[i])].outcome = "raise"

\* The stage calls made for item i that returned a verdict.
ReturnedCalls(i) == {k \in 1..Len(invoked[i]) : invoked[i][k].outcome # "raise"}

\* Item i is filtering and no worker process holds it.
Orphan(i) ==
    /\ i \in DOMAIN articles
    /\ articles[i].filter_status = "filtering"
    /\ Holders(i) = {}

\* Failures of the judging service call or of parsing its answer.
CallFailures == {"api_error", "malformed", "timeout_then_json"}

\* The threshold a scoring stage compares with.
ThresholdOf(stage) ==
    IF stage = "wow_factor" THEN WOW_THRESHOLD ELSE deployment.values_threshold

\* Every Trace row, committed or added to a worker's session.
TraceRows ==
    UNION {{traces[i][k] : k \in 1..Len(traces[i])} : i \in Items}
    \cup UNION {{pending[w][k] : k \in 1..Len(pending[w])} : w \in Workers}

\* Positions of a worker inside the while loop of run_worker_loop.
InLoop == {"loop_test", "batch_test", "claim", "claim_commit", "news_check",
           "wow_factor", "values_fit", "finish", "update_counts"}

\* A step of worker w in which a store operation of the loop body raises.
LoopException(w) ==
    /\ disturbances' = disturbances + 1
    /\ \/ CheckQueue(w)
       \/ claim_next_article(w)
       \/ ClaimCommit(w)
       \/ FinishArticle(w)
       \/ UpdateCounts(w)

\* Items claimed under Run r whose outcome is not committed.
ClaimedNotCommitted(r) ==
    {i \in DOMAIN articles :
        /\ articles[i].filter_status = "filtering"
        /\ \E k \in 1..Len(claims[i]) : claims[i][k] = r}

\* Ids of the Runs the workers can create.
RunIds == 1..Cardinality(Workers)

\* A pass count as read back: NULL reads as 0.
CountOrZero(c) == IF c = NoCount THEN 0 ELSE c

\* The funnel of a Run as the admin page computes it: the number of committed
\* Trace rows of Run r with stage order k and decision pass.
TracePasses(r, k) ==
    Cardinality({<<i, n>> \in Items \X (1..3) :
                    /\ n <= Len(traces[i])
                    /\ traces[i][n].run_id = r
                    /\ traces[i][n].filter_order = k
                    /\ traces[i][n].decision = "pass"})

\* Items a worker committed as passed under Run r.
PassedItems(r) ==
    {i \in DOMAIN articles : /\ articles[i].last_run_id = r
                             /\ articles[i].filter_notes.kind = "Passed all filters"}

\* Worker w writes counts to its Run.
Flushed(w, r) ==
    /\ r = current_run_id[w] /\ r = current_run_id'[w]
    /\ runs'[r].status = "running"
    /\ runs'[r] # runs[r]

\* Worker w's claim finds no row to take (claim_next_article returns None).
ClaimFoundNothing(w) == pc[w] = "claim" /\ pc'[w] = "update_counts"

\* Worker w ends, with no exception, an iteration whose claim found nothing.
AfterNothingClaimed(w) ==
    /\ pc[w] = "update_counts" /\ pc'[w] = "loop_test"
    /\ batch_i[w] < BATCH_SIZE /\ ~shutdown_requested[w]
    /\ disturbances' = disturbances

\* The Run of worker w holds the counts w has in memory.
CountsFlushed(w) ==
    /\ runs[current_run_id[w]].filter1_pass_count = filter1_pass[w]
    /\ runs[current_run_id[w]].filter2_pass_count = filter2_pass[w]
    /\ runs[current_run_id[w]].filter3_pass_count = filter3_pass[w]

\* What identifies a Trace row: Run, item, stage, order and decision.
TraceKey(run_id, item, stage, order, decision) ==
    [run_id |-> run_id, article_url |-> item, filter_name |-> stage,
     filter_order |-> order, decision |-> decision]

KeysOf(rows) ==
    [k \in 1..Len(rows) |->
        TraceKey(rows[k].run_id, rows[k].article_url, rows[k].filter_name,
                 rows[k].filter_order, rows[k].decision)]

HasVerdict(call) == call.outcome # "raise"

OrderOf(stage) == CHOOSE n \in 1..3 : StageOrder[n] = stage

\* The rows the stage invocations on item i that returned a verdict call
\* for, in the order of the invocations.
ExpectedKeys(i) ==
    LET calls == SelectSeq(invoked[i], HasVerdict)
    IN [k \in 1..Len(calls) |->
           TraceKey(calls[k].run_id, i, calls[k].stage, OrderOf(calls[k].stage),
                    IF calls[k].verdict.passed THEN "pass" ELSE "reject")]

\* Workers between the claim of item i and the commit of its outcome.
Processing(i) ==
    {w \in Workers : article[w] = i /\ pc[w] \in {"news_check", "wow_factor",
                                                     "values_fit", "finish"}}

\* The Trace rows recorded for item i: committed, or added to the session
\* of the worker processing it.
Recorded(i) ==
    IF Processing(i) = {} THEN traces[i]
    ELSE traces[i] \o pending[CHOOSE w \in Processing(i) : TRUE]

TypeOK ==
    /\ \A i \in DOMAIN articles : articles[i].filter_status \in FilterStatus
    /\ \A w \in Workers : filter1_pass[w] >= 0

\* C1: no item is held by two workers at once, and every successful claim
\* moves exactly one item, the claimed one, from unfiltered to filtering
\* and hands it to the claiming worker alone.
C1_ExclusiveClaim ==
    [][/\ \A i \in Items : Cardinality(Holders(i)') <= 1
       /\ \A w \in Workers : Claimed(w) =>
             /\ article'[w] = article[w]
             /\ articles[article[w]].filter_status = "unfiltered"
             /\ articles'[article[w]].filter_status = "filtering"
             /\ \A j \in DOMAIN articles \ {article[w]} : articles'[j] = articles[j]
             /\ Holders(article[w])' = {w}]_vars

\* Two workers race: one holds the row lock of its uncommitted claim while
\* the other's claim has just found no row to take.
C1_Witness ==
    \E w1, w2 \in Workers :
        /\ w1 # w2
        /\ pc[w1] = "claim_commit" /\ rowLock[article[w1]] = w1
        /\ pc[w2] = "update_counts" /\ batch_i[w2] = 0 /\ ~shutdown_requested[w2]

C4_PassedIffThreePasses ==
    [][\A w \in Workers, i \in Items : Finalized(w) /\ i = article[w] =>
            /\ articles'[i].filter_status = IF AllPassed(i) THEN "passed" ELSE "rejected"
            /\ AllPassed(i) =>
                 Decisions(i)' = << <<"news_check", 1, "pass">>,
                                    <<"wow_factor", 2, "pass">>,
                                    <<"values_fit", 3, "pass">> >>]_vars

\* A worker has finalized an item as passed, with its three rows.
C4_Witness ==
    \E i \in DOMAIN articles :
        /\ articles[i].filter_status = "passed"
        /\ articles[i].filter_notes.kind = "Passed all filters"
        /\ Len(traces[i]) = 3

\* C5: when a stage call raises while a worker processes an item, the
\* worker goes straight to finalizing the item as not passed, its notes
\* naming the stage that raised; no later stage is invoked for the item;
\* the commit writes the item rejected with those notes and the worker
\* stays in its loop, at the next iteration of the batch.
C5_StageExceptionRejects ==
    [][\A w \in Workers, i \in Items :
         /\ article[w] = i /\ ~LastCallRaised(i) /\ LastCallRaised(i)' =>
               /\ pc'[w] = "finish"
               /\ ~outcome'[w].passed
               /\ obj'[w].filter_notes.kind = "Error in"
               /\ obj'[w].filter_notes.stage = invoked'[i][Len(invoked'[i])].stage
         /\ LastCallRaised(i) => invoked'[i] = invoked[i]
         /\ Finalized(w) /\ article[w] = i /\ LastCallRaised(i) =>
               /\ articles'[i].filter_status = "rejected"
               /\ articles'[i].filter_notes.kind = "Error in"
               /\ articles'[i].filter_notes.stage = invoked[i][Len(invoked[i])].stage
               /\ pc'[w] = "batch_test"]_vars

\* A stage raised on a1, the worker committed a1 rejected with the error
\* notes and, in the same Run, has claimed a2 and is processing it.
C5_Witness ==
    \E w \in Workers :
        /\ DOMAIN articles = {"a1", "a2"}
        /\ LastCallRaised("a1")
        /\ articles["a1"].filter_status = "rejected"
        /\ articles["a1"].filter_notes.kind = "Error in"
        /\ article[w] = "a2" /\ pc[w] = "news_check"
        /\ claims["a1"] = <<current_run_id[w]>>

\* C6: in every state where a worker's Run is marked completed, no item
\* that worker claimed is still filtering.
C6_CompletedRunLeavesNoItem ==
    \A i \in DOMAIN articles :
        \A k \in 1..Len(claims[i]) :
            runs[claims[i][k]].status = "completed"
                => articles[i].filter_status # "filtering"

\* C7, as stated: no claim whose UPDATE a worker issued with its shutdown
\* flag already set moves an item to filtering.
C7_NoClaimAfterSignal ==
    [][\A w \in Workers :
         pc[w] = "claim_commit" /\ articles'[article[w]].filter_status = "filtering"
             => claimsAfterSignal[w] = 0]_vars

\* C7, amended: a worker issues at most one claim after its shutdown flag
\* became true (the one whose flag test at the top of the for loop came
\* before the signal).
C7_AtMostOneClaimAfterSignal ==
    \A w \in Workers : claimsAfterSignal[w] <= 1

\* The signal arrived between the flag test and the claim: the worker is
\* processing the item it claimed with the flag set.
C7_Witness ==
    \E w \in Workers :
        /\ claimsAfterSignal[w] = 1
        /\ shutdown_requested[w]
        /\ pc[w] = "news_check"
        /\ articles[article[w]].filter_status = "filtering"

\* C8, as stated: when the next stage is evaluated, the Trace rows of the
\* stages before it are in the store.
C8_DurableBeforeNextStage ==
    \A w \in Workers :
        /\ pc[w] = "wow_factor" => Len(traces[article[w]]) = 1
        /\ pc[w] = "values_fit" => Len(traces[article[w]]) = 2

\* C8, amended: a worker's Trace rows reach the store only with the commit
\* of the item's verdict, all at once: an item no worker has finalized has
\* no Trace row, a finalized one has a row for every stage call that
\* returned.  run_pipeline with FILTER_TRACING_ENABLED true commits each
\* row before it evaluates the next stage.
C8_TracesDurableWithItem ==
    /\ \A i \in DOMAIN articles :
          Len(traces[i]) = IF articles[i].last_run_id = NoRun
                           THEN 0 ELSE Cardinality(ReturnedCalls(i))
    /\ TRACING_ENABLED /\ b_pc = "b_wow_factor" => Len(traces[b_articles[b_i]]) = 1
    /\ TRACING_ENABLED /\ b_pc = "b_values_fit" => Len(traces[b_articles[b_i]]) = 2

\* A worker crashed in the middle of an item after a stage had returned:
\* the item is filtering, held by no one, and has no Trace row.
C8_Witness ==
    \E w \in Workers, i \in DOMAIN articles :
        /\ pc[w] = "crashed"
        /\ articles[i].filter_status = "filtering"
        /\ Holders(i) = {}
        /\ ReturnedCalls(i) # {}
        /\ traces[i] = <<>>

\* C9: every persisted Run has stage-1 count >= stage-2 count >= stage-3
\* count, whatever the passes, rejections and exceptions behind it.
C9_MonotonicFunnel ==
    \A r \in 1..Len(runs) :
        /\ runs[r].filter1_pass_count >= runs[r].filter2_pass_count
        /\ runs[r].filter2_pass_count >= runs[r].filter3_pass_count

\* A Run whose two items stopped at different stages.
C9_Witness ==
    \E r \in 1..Len(runs) :
        /\ runs[r].filter1_pass_count = 2
        /\ runs[r].filter2_pass_count = 1
        /\ runs[r].filter3_pass_count = 0

\* C10: an item that is filtering and held by no worker is never claimed
\* or processed again, and its row changes only by the operator's action.
C10_OrphanNotReclaimed ==
    [][\A i \in Items : Orphan(i) =>
         /\ Holders(i)' = {}
         /\ claims'[i] = claims[i]
         /\ invoked'[i] = invoked[i]
         /\ traces'[i] = traces[i]
         /\ \/ articles'[i] = articles[i]
            \/ pc' = pc /\ articles'[i] = Unrejected(articles[i])]_vars

\* A worker crashed holding a1; the service, started again under another
\* Run, is about to claim with a1 still filtering.
C10_Witness ==
    \E v, w \in Workers, i \in Items :
        /\ pc[v] = "crashed"
        /\ Orphan(i)
        /\ pc[w] = "claim"
        /\ claims[i] # <<>> /\ claims[i][1] # current_run_id[w]

\* C11: every item is claimed at most once, over all workers, crashes and
\* restarts, and each stage is called for it at most once, under the Run of
\* the worker that claimed it.
C11_ClaimedAtMostOnce ==
    \A i \in DOMAIN articles :
        /\ Len(claims[i]) <= 1
        /\ \A k, l \in 1..Len(invoked[i]) :
              invoked[i][k].stage = invoked[i][l].stage => k = l
        /\ \A k \in 1..Len(invoked[i]) : claims[i] = <<invoked[i][k].run_id>>

\* A worker crashed while processing a1; the service started again has
\* claimed a2 under a second Run, and a1 still has its one claim.
C11_Witness ==
    /\ DOMAIN articles = {"a1", "a2"}
    /\ \E v \in Workers : pc[v] = "crashed"
    /\ Orphan("a1") /\ invoked["a1"] # <<>>
    /\ Len(claims["a1"]) = 1 /\ Len(claims["a2"]) = 1
    /\ claims["a1"] # claims["a2"]

\* C12: for each stage, a failed judge call or an unparsable answer does
\* not raise out of the stage: the stage returns a reject verdict with
\* score 0 (News Check: category other_non_news) and non-empty reasoning.
C12_CallFailureIsRejectVerdict ==
    \A i \in Items :
        \A k \in 1..Len(invoked[i]) :
            invoked[i][k].resp.kind \in CallFailures =>
                /\ invoked[i][k].outcome = "reject"
                /\ ~invoked[i][k].verdict.passed
                /\ invoked[i][k].verdict.reasoning # ""
                /\ IF invoked[i][k].stage = "news_check"
                   THEN invoked[i][k].verdict.category = "other_non_news"
                   ELSE invoked[i][k].verdict.score = 0

\* Values Fit, the third stage called, has met an unparsable answer.
C12_Witness ==
    \E i \in Items :
        /\ Len(invoked[i]) = 3
        /\ invoked[i][3].resp.kind = "malformed"
        /\ invoked[i][3].verdict.reasoning = "Filter error"

\* C13: when the Values Fit call times out and the third attempt would
\* answer 0.7, the stage returns pass with that score.
C13_RetriedUntilAnswer ==
    \A i \in Items :
        \A k \in 1..Len(invoked[i]) :
            /\ invoked[i][k].stage = "values_fit"
            /\ invoked[i][k].resp.kind = "timeout_then_json"
            => /\ invoked[i][k].verdict.passed
               /\ invoked[i][k].verdict.score = invoked[i][k].resp.score

\* C14: News Check returns reject for every answer whose category is not
\* news_article, whatever the answer's other fields say.
C14_OnlyNewsCategoryPasses ==
    \A i \in Items :
        \A k \in 1..Len(invoked[i]) :
            /\ invoked[i][k].stage = "news_check"
            /\ invoked[i][k].resp.kind = "json"
            /\ invoked[i][k].resp.category # "news_article"
            => ~invoked[i][k].verdict.passed

\* C15: Wow Factor and Values Fit clamp the judge's score into [0,1] (a
\* score above 1 becomes 1, one below 0 becomes 0, any other is kept) and
\* pass if and only if the clamped score is at least the stage's threshold.
C15_ClampThenThreshold ==
    \A i \in Items :
        \A k \in 1..Len(invoked[i]) :
            /\ invoked[i][k].stage \in {"wow_factor", "values_fit"}
            /\ invoked[i][k].resp.kind = "json"
            => /\ invoked[i][k].resp.score > 10 => invoked[i][k].verdict.score = 10
               /\ invoked[i][k].resp.score < 0 => invoked[i][k].verdict.score = 0
               /\ invoked[i][k].resp.score \in 0..10 =>
                      invoked[i][k].verdict.score = invoked[i][k].resp.score
               /\ invoked[i][k].verdict.passed <=>
                      invoked[i][k].verdict.score >= ThresholdOf(invoked[i][k].stage)

\* Wow Factor passed a score equal to its threshold and Values Fit was
\* answered a score above 1.
C15_Witness ==
    \E i \in Items :
        /\ Len(invoked[i]) = 3
        /\ invoked[i][2].resp.score = WOW_THRESHOLD /\ invoked[i][2].verdict.passed
        /\ invoked[i][3].resp.score = 12 /\ invoked[i][3].verdict.score = 10

\* C16: every Trace row that carries a score has a score between 0 and 1,
\* whatever the judge answered, in the worker and in the batch pipeline.
C16_TraceScoreInRange ==
    \A r \in TraceRows : r.score # NoScore => r.score \in 0..10

\* A committed Values Fit row with score 1 for a judge's answer above 1, after
\* a Wow Factor row of the same item.
C16_Witness ==
    \E i \in Items :
        /\ Len(traces[i]) = 3 /\ Len(invoked[i]) = 3
        /\ invoked[i][3].resp.kind = "json" /\ invoked[i][3].resp.score > 10
        /\ traces[i][3].filter_name = "values_fit" /\ traces[i][3].score = 10
        /\ traces[i][2].score \in 0..10

\* C17: every Trace row with decision reject has non-empty reasoning, also
\* when the judge's answer carries an empty reasoning string.
C17_RejectHasReasoning ==
    \A r \in TraceRows : r.decision = "reject" => r.reasoning # ""

\* C18: an item a worker finalizes as rejected at News Check or Wow Factor,
\* by a verdict or by an exception, has filter score 0 and notes that name
\* that stage, whatever score it was ingested with.
C18_EarlyRejectionScoreZero ==
    \A i \in DOMAIN articles :
        /\ articles[i].filter_status = "rejected"
        /\ articles[i].last_run_id # NoRun
        /\ Len(invoked[i]) \in 1..2
        => /\ articles[i].filter_score = 0
           /\ articles[i].filter_notes.stage = invoked[i][Len(invoked[i])].stage

\* C19: whenever Values Fit returned a verdict for an item, the filter score
\* reported for the item is that verdict's clamped score, for every threshold,
\* in the worker's commit and in the result of run_pipeline_for_article.
C19_FilterScoreIsValuesScore ==
    /\ \A i \in DOMAIN articles :
          /\ articles[i].filter_status \in {"passed", "rejected"}
          /\ articles[i].last_run_id # NoRun
          /\ Len(invoked[i]) = 3 /\ invoked[i][3].outcome # "raise"
          => articles[i].filter_score = invoked[i][3].verdict.score
    /\ s_pc = "returned" /\ Len(invoked["a1"]) = 3 /\ invoked["a1"][3].outcome # "raise"
          => s_result.filter_score = invoked["a1"][3].verdict.score

\* C20: a store failure during the queue check, the claim, an item commit
\* or a count update is caught at the loop boundary: the worker is back at
\* the loop test, still running with its Run still running, and it leaves
\* the loop for the finalization only when shutdown has been requested.
C20_LoopCatchesExceptions ==
    [][\A w \in Workers :
         /\ LoopException(w) =>
               /\ pc'[w] = "loop_test"
               /\ runs'[current_run_id'[w]].status = "running"
               /\ ~runs'[current_run_id'[w]].completed
               /\ current_run_id'[w] = current_run_id[w]
         /\ pc[w] \in InLoop /\ pc'[w] \notin InLoop =>
               \/ pc'[w] = "finalize" /\ shutdown_requested[w]
               \/ pc'[w] = "crashed"]_vars

\* The commit of a processed item has failed: the only worker is back at
\* the loop test with its Run running and the item left filtering.
C20_Witness ==
    /\ deployment.workers = {"w1"}
    /\ pc["w1"] = "loop_test" /\ disturbances = 1
    /\ articles["a1"].filter_status = "filtering"
    /\ Len(invoked["a1"]) > 0
    /\ runs[current_run_id["w1"]].status = "running"

\* C21: at every moment at most one item is claimed by and not yet
\* committed by any one worker: a worker claims the next item only after
\* the outcome of the one it claimed before has been committed.
C21_OneUncommittedItem ==
    \A w \in Workers :
        Alive(w) /\ current_run_id[w] # NoRun
            => Cardinality(ClaimedNotCommitted(current_run_id[w])) <= 1

\* C22: with no crash and no store failure and a worker that keeps
\* running, every unfiltered item eventually is passed or rejected,
\* whatever the judge calls do, and no item has more than three stage
\* invocations.
C22_ForwardProgress ==
    /\ [](\A i \in Items : Len(invoked[i]) <= 3)
    /\ (\E w \in Workers : [](Alive(w) /\ ~shutdown_requested[w]))
          => \A i \in Items :
                (i \in DOMAIN articles /\ articles[i].filter_status = "unfiltered")
                   ~> (i \in DOMAIN articles
                       /\ articles[i].filter_status \in {"passed", "rejected"})

\* Both queued items are rejected, the first by a stage call that raised.
C22_Witness ==
    /\ DOMAIN articles = {"a1", "a2"}
    /\ \A i \in DOMAIN articles : articles[i].filter_status = "rejected"
    /\ invoked["a1"][1].outcome = "raise"
    /\ \E w \in Workers : Alive(w) /\ ~shutdown_requested[w]

C24_FinalCountsFlushed ==
    [][\A w \in Workers :
         pc[w] = "finalize" /\ pc'[w] = "exited" =>
             /\ runs'[current_run_id[w]].status = "completed"
             /\ CountOrZero(runs'[current_run_id[w]].filter1_pass_count) = filter1_pass[w]
             /\ CountOrZero(runs'[current_run_id[w]].filter2_pass_count) = filter2_pass[w]
             /\ CountOrZero(runs'[current_run_id[w]].filter3_pass_count) = filter3_pass[w]]_vars

\* C25: whenever a worker flushes counts to its Run, the stage-k pass count
\* is the number of committed Trace rows of that Run with stage order k and
\* decision pass, and the stage-3 count is the number of items committed as
\* passed under that Run.
C25_CountsMatchTraces ==
    [][\A w \in Workers : \A r \in RunIds :
         Flushed(w, r) =>
             /\ runs'[r].filter1_pass_count = TracePasses(r, 1)'
             /\ runs'[r].filter2_pass_count = TracePasses(r, 2)'
             /\ runs'[r].filter3_pass_count = TracePasses(r, 3)'
             /\ runs'[r].filter3_pass_count = Cardinality(PassedItems(r)')]_vars

\* C26: a worker creates one Run, at startup and before its first claim,
\* running and with input_count the number of unfiltered items at that
\* moment; it keeps that Run while it lives, no two workers share a Run, and
\* a worker Run's row is written only by the worker that owns it.
C26_OneRunPerWorker ==
    [][/\ \A w \in Workers :
            /\ pc[w] = "start" /\ pc'[w] = "loop_test" =>
                  /\ Len(runs') = Len(runs) + 1
                  /\ current_run_id'[w] = Len(runs')
                  /\ runs'[Len(runs')].status = "running"
                  /\ runs'[Len(runs')].input_count =
                        Cardinality({i \in DOMAIN articles :
                                        articles[i].filter_status = "unfiltered"})
                  /\ \A i \in Items : \A k \in 1..Len(claims[i]) :
                        claims[i][k] # Len(runs')
            /\ pc[w] \in InLoop \cup {"finalize"} =>
                  \/ current_run_id'[w] = current_run_id[w]
                  \/ ~Alive(w)'
            /\ \A v \in Workers \ {w} :
                  current_run_id'[w] # NoRun => current_run_id'[v] # current_run_id'[w]
       /\ ~deployment.batch =>
            /\ Len(runs') # Len(runs) => \E w \in Workers : pc[w] = "start" /\ pc'[w] # "start"
            /\ \A r \in RunIds :
                  r <= Len(runs) /\ runs'[r] # runs[r] =>
                      \E w \in Workers :
                          /\ current_run_id[w] = r
                          /\ pc[w] \in {"loop_test", "update_counts", "finalize"}]_vars

\* The service started again has its own Run, created with the one item
\* still unfiltered, and has written its counts to it; the first Run, of
\* the process that ended, is another row.
C26_Witness ==
    /\ Len(runs) = 2
    /\ current_run_id["w2"] = 2
    /\ runs[2].input_count = 1 /\ runs[1].input_count = 2
    /\ runs[2].filter1_pass_count # NoCount
    /\ runs[1].filter1_pass_count # NoCount

\* C27: when a worker session or a batch invocation ends through its error
\* path, its Run is finalized with status failed and a non-empty error
\* message.
C27_ErrorPathFinalizesFailed ==
    [][/\ \A w \in Workers :
            pc[w] # "failed" /\ pc'[w] = "failed" /\ current_run_id[w] # NoRun =>
                /\ runs'[current_run_id[w]].status = "failed"
                /\ runs'[current_run_id[w]].error_message # ""
       /\ b_pc # "raised" /\ b_pc' = "raised" /\ b_run_id # NoRun =>
                /\ runs'[b_run_id].status = "failed"
                /\ runs'[b_run_id].error_message # ""]_vars

\* C28, as stated: a claim that finds no claimable item changes no item and
\* raises nothing, and the worker then flushes the Run counts and takes the
\* idle sleep before it checks the queue again, as on an empty queue.
C28_NothingClaimedIsEmptyQueue ==
    [][\A w \in Workers :
         /\ ClaimFoundNothing(w) =>
               /\ articles' = articles /\ rowLock' = rowLock
               /\ disturbances' = disturbances
         /\ AfterNothingClaimed(w) =>
               /\ CountsFlushed(w)'
               /\ slept'[w] = SLEEP_INTERVAL]_vars

\* C28, amended: a claim that finds no claimable item changes no item and
\* raises nothing; the worker then flushes the Run counts and takes the
\* one-second pause that ends every batch; it takes the idle sleep only
\* when a queue check finds no unfiltered item.
C28_NothingClaimedBriefPause ==
    [][\A w \in Workers :
         /\ ClaimFoundNothing(w) =>
               /\ articles' = articles /\ rowLock' = rowLock
               /\ disturbances' = disturbances
         /\ AfterNothingClaimed(w) =>
               /\ CountsFlushed(w)'
               /\ slept'[w] = 1
         /\ slept'[w] = SLEEP_INTERVAL /\ slept'[w] # slept[w] =>
               /\ pc[w] = "loop_test"
               /\ get_queue_stats("unfiltered") = 0]_vars

\* A worker's claim found the only unfiltered row locked by its peer: it
\* has flushed its counts and paused one second, the peer still holds the
\* row under its uncommitted claim.
C28_Witness ==
    \E v, w \in Workers :
        /\ v # w
        /\ pc[v] = "claim_commit" /\ rowLock[article[v]] = v
        /\ articles[article[v]].filter_status = "unfiltered"
        /\ pc[w] = "loop_test" /\ slept[w] = 1 /\ batch_i[w] = 0
        /\ ~shutdown_requested[w] /\ disturbances = 0
        /\ runs[current_run_id[w]].filter1_pass_count = 0

\* C29: between the claim of an item and the commit of its outcome only
\* the claiming worker changes the item's row, and the row the worker's
\* commit writes over is the row it loaded.
C29_ClaimedItemConfined ==
    [][\A w \in Workers : \A i \in DOMAIN articles :
         article[w] = i /\ pc[w] \in {"news_check", "wow_factor", "values_fit", "finish"} =>
             /\ articles'[i] # articles[i] => pc'[w] # pc[w]
             /\ pc[w] = "finish" /\ pc'[w] = "batch_test" => articles[i] = loaded[w]]_vars

C31_TraceRowsAppendOnly ==
    [][\A i \in Items :
          /\ Len(traces[i]) <= Len(traces'[i])
          /\ SubSeq(traces'[i], 1, Len(traces[i])) = traces[i]]_vars

\* The batch pipeline has committed two rows for an item one after the
\* other and then completed its Run.
C31_Witness ==
    /\ b_pc = "returned"
    /\ \E i \in Items : Len(traces[i]) >= 2
    /\ \E r \in 1..Len(runs) : runs[r].status = "completed"

\* The content of the items, truncated and stripped, is below the minimum
\* News Check asks for (filter_news_check, line 123).
ShortContent == deployment.content < MIN_CONTENT

\* The verdict News Check returns for such content (lines 124-131).
InsufficientContent(v) ==
    /\ ~v.passed
    /\ v.category = "other_non_news"
    /\ v.reasoning # ""
    /\ v.input_tokens = 0 /\ v.output_tokens = 0 /\ v.latency_ms = 0

\* C35, as stated: when the content is short every News Check invocation
\* returns, without a call to the judge, the reject verdict with category
\* other_non_news, a reasoning and zero metrics, and a worker that commits
\* the item commits it rejected at news_check with exactly one Trace row
\* and one stage invocation.
C35_ShortContentRejected ==
    [][ShortContent =>
          \A i \in Items :
             /\ \A k \in 1..Len(invoked'[i]) :
                   /\ invoked'[i][k].stage = "news_check"
                   /\ invoked'[i][k].resp.kind = "short_content"
                   /\ InsufficientContent(invoked'[i][k].verdict)
             /\ \A w \in Workers : Finalized(w) /\ article[w] = i =>
                   /\ articles'[i].filter_status = "rejected"
                   /\ WorkerRejectedAt(i, "news_check")'
                   /\ Decisions(i)' = << <<"news_check", 1, "reject">> >>
                   /\ Len(invoked[i]) = 1]_vars

\* C35, amended: when the content is short News Check never calls the
\* judge, and whenever it returns it returns that verdict; a worker that
\* commits the item after the verdict commits it rejected at news_check with
\* exactly one Trace row and no later stage invoked.  When constructing the
\* judge's client raises, which precedes the length test, the worker commits
\* the item rejected as news_check_error with no Trace row, again with no
\* later stage invoked.
C35_ShortContentNeverJudged ==
    [][ShortContent =>
          \A i \in Items :
             /\ \A k \in 1..Len(invoked'[i]) :
                   /\ invoked'[i][k].stage = "news_check"
                   /\ invoked'[i][k].resp.kind \in {"short_content", "raise"}
                   /\ invoked'[i][k].outcome # "raise" =>
                         /\ invoked'[i][k].resp.kind = "short_content"
                         /\ InsufficientContent(invoked'[i][k].verdict)
             /\ \A w \in Workers : Finalized(w) /\ article[w] = i =>
                   /\ articles'[i].filter_status = "rejected"
                   /\ Len(invoked[i]) = 1
                   /\ IF invoked[i][1].outcome = "raise"
                      THEN /\ outcome[w].rejection_stage = "news_check_error"
                           /\ Decisions(i)' = <<>>
                      ELSE /\ WorkerRejectedAt(i, "news_check")'
                           /\ Decisions(i)' = << <<"news_check", 1, "reject">> >>]_vars

\* A worker has committed an item of 49 characters rejected at news_check on
\* the verdict returned before any call, with its one Trace row.
C35_Witness ==
    \E i \in DOMAIN articles :
        /\ deployment.content = MIN_CONTENT - 1
        /\ WorkerRejectedAt(i, "news_check")
        /\ articles[i].filter_status = "rejected"
        /\ Len(invoked[i]) = 1 /\ invoked[i][1].resp.kind = "short_content"
        /\ Decisions(i) = << <<"news_check", 1, "reject">> >>

\* run_pipeline's result and statistics (lines 339-359).
Partitioned ==
    /\ \A n \in 1..Len(b_articles) :
          Cardinality({k \in 1..Len(passed_articles) :
                          passed_articles[k].url = b_articles[n]})
          + Cardinality({k \in 1..Len(failed_articles) :
                            failed_articles[k].url = b_articles[n]}) = 1
    /\ Len(passed_articles) + Len(failed_articles) = Len(b_articles)
    /\ filter3_pass_count = Len(passed_articles)

\* The per-article handler has just put an article among the failed
\* (run_pipeline, lines 317-326).
ArticleException ==
    /\ Len(failed_articles') = Len(failed_articles) + 1
    /\ failed_articles'[Len(failed_articles')].rejection_stage = "error"

\* C36: run_pipeline partitions its input: when it returns, every input
\* article is in exactly one of passed_articles and failed_articles,
\* final_pass + final_reject = input_count, filter3_pass = final_pass and
\* the Run is completed; an exception while processing one article puts that
\* article in failed_articles and the loop goes on, and it causes no failure
\* afterwards: a later article is put among the errors only when one of its
\* own stage calls raised or the store failed anew, and the final update of
\* the Run fails only when the store fails anew.
C36_PipelinePartitions ==
    [][/\ b_pc' = "returned" =>
             Partitioned' /\ runs'[b_run_id'].status = "completed"
       /\ ArticleException =>
             /\ failed_articles'[Len(failed_articles')].url = b_articles[b_i]
             /\ b_pc' = "for" /\ b_i' = b_i + 1
             /\ \/ invoked'[b_articles[b_i]][Len(invoked'[b_articles[b_i]])].outcome = "raise"
                \/ disturbances' = disturbances + 1
       /\ b_pc = "update_run" /\ b_pc' = "except" =>
             disturbances' = disturbances + 1]_vars

\* ---------------------------------------------------------------------
\* truncate_content on its own: every content of at most MaxLen characters
\* and every budget up to MaxLimit, truncated by each of the three stages
\* (each stage module has its own, identical, truncate_content).
MaxLen == 3
MaxLimit == 2
Contents == UNION {[1..n -> {"x", " "}] : n \in 0..MaxLen}

\* "\n\n[Content truncated...]"
TRUNCATION_MARKER ==
    <<"\n", "\n", "[", "C", "o", "n", "t", "e", "n", "t", " ", "t", "r", "u", "n", "c",
      "a", "t", "e", "d", ".", ".", ".", "]">>

\* No process of the pipeline runs.
NoDeployment ==
    [workers |-> {}, queue |-> {}, batch |-> FALSE, single |-> FALSE, serial |-> FALSE,
     detail |-> FALSE, values_threshold |-> VALUES_THRESHOLD, content |-> MIN_CONTENT]

\* A truncation that also cuts content of exactly `limit` characters.
truncate_content_below(c, n) ==
    IF Len(c) < n THEN c ELSE SubSeq(c, 1, n) \o TRUNCATION_MARKER

truncate_content(c, n) ==
    IF Len(c) <= n THEN c ELSE SubSeq(c, 1, n) \o TRUNCATION_MARKER

TruncateInit ==
    /\ PipelineInit(NoDeployment)
    /\ RulesOff
    /\ RetentionOff
    /\ content \in Contents
    /\ limit \in 0..MaxLimit
    /\ submitted = [f \in {"news_check", "wow_factor", "values_fit"} |-> NotSubmitted]

\* filter_news_check line 120, filter_wow_factor line 119, filter_values_fit
\* line 169: the content the stage formats into its prompt.
PrepareContent(f) ==
    /\ submitted[f] = NotSubmitted
    /\ submitted' = [submitted EXCEPT ![f] = truncate_content(content, limit)]
    /\ UNCHANGED <<pipelineVars, content, limit, rulesVars, retentionVars>>

TruncateNext == \E f \in DOMAIN submitted : PrepareContent(f)

TruncateSpec == TruncateInit /\ [][TruncateNext]_vars

\* C33: truncate_content(content, limit) returns content unchanged when its
\* length is at most limit, and otherwise the first limit characters of
\* content followed by the truncation marker; the text a stage holds for its
\* prompt is that result, so it is never longer than limit plus the length
\* of the marker.
C33_TruncatedToLimit ==
    \A f \in DOMAIN submitted : submitted[f] # NotSubmitted =>
        /\ Len(content) <= limit => submitted[f] = content
        /\ Len(content) > limit =>
              /\ Len(submitted[f]) = limit + Len(TRUNCATION_MARKER)
              /\ \A k \in 1..limit : submitted[f][k] = content[k]
              /\ \A k \in 1..Len(TRUNCATION_MARKER) :
                    submitted[f][limit + k] = TRUNCATION_MARKER[k]
        /\ Len(submitted[f]) <= limit + Len(TRUNCATION_MARKER)

\* The three stages hold a content that was cut after its first characters.
C33_Witness ==
    /\ DOMAIN submitted # {}
    /\ \A f \in DOMAIN submitted : submitted[f] # NotSubmitted
    /\ limit > 0 /\ Len(content) > limit

\* ---------------------------------------------------------------------
\* load_filter_rules on its own: every content of the rule table of at most
\* MaxRules rows, in every order the query may return them.
MaxRules == 2
RuleRows == [rule_type : {"must_have", "must_avoid", "good_topic", "borderline"},
     rule_text : {"Horses", "Lawsuits"}, is_active : BOOLEAN]
RuleTables == UNION {[1..n -> RuleRows] : n \in 0..MaxRules}

DEFAULT_MUST_HAVE ==
    << <<"- ", "Animals, wildlife, farming stories">>,
       <<"- ", "Community efforts and barn raisings">>,
       <<"- ", "Small-town traditions and events">>,
       <<"- ", "Nature, weather, and seasonal stories">>,
       <<"- ", "Food, cooking, and recipes">>,
       <<"- ", "Crafts and traditional skills">> >>

DEFAULT_MUST_AVOID ==
    << <<"- ", "Politics, elections, government controversy">>,
       <<"- ", "Violence, crime, death, tragedy">>,
       <<"- ", "Alcohol, drugs, gambling">>,
       <<"- ", "Sexual content or immodesty">>,
       <<"- ", "Modern technology focus (smartphones, internet, AI)">>,
       <<"- ", "Individual hero worship or celebrity focus">>,
       <<"- ", "Military, war, international conflict">> >>

\* session.query(FilterRule).filter(FilterRule.is_active == True).all()
is_active(rule) == rule.is_active
IsMustHave(rule) == rule.rule_type = "must_have"
IsMustAvoid(rule) == rule.rule_type = "must_avoid"

\* f"- {rule.rule_text}" for each rule of the sequence
RuleLines(seq) == [k \in 1..Len(seq) |-> <<"- ", seq[k].rule_text>>]

\* A load that does not filter on is_active.
load_filter_rules_inactive_too(table) ==
    LET must_have == RuleLines(SelectSeq(table, IsMustHave))
        must_avoid == RuleLines(SelectSeq(table, IsMustAvoid))
    IN [must_have |-> IF must_have = <<>> THEN DEFAULT_MUST_HAVE ELSE must_have,
        must_avoid |-> IF must_avoid = <<>> THEN DEFAULT_MUST_AVOID ELSE must_avoid]

load_filter_rules(table) ==
    LET active == SelectSeq(table, is_active)
        must_have == RuleLines(SelectSeq(active, IsMustHave))
        must_avoid == RuleLines(SelectSeq(active, IsMustAvoid))
    IN [must_have |-> IF must_have = <<>> THEN DEFAULT_MUST_HAVE ELSE must_have,
        must_avoid |-> IF must_avoid = <<>> THEN DEFAULT_MUST_AVOID ELSE must_avoid]

RulesInit ==
    /\ PipelineInit(NoDeployment)
    /\ TruncateOff
    /\ RetentionOff
    /\ rule_table \in RuleTables
    /\ rules = NoRules

\* filter_values_fit, lines 164-165; run_pipeline, line 183.
LoadRules ==
    /\ rules = NoRules
    /\ rules' = load_filter_rules(rule_table)
    /\ UNCHANGED <<pipelineVars, truncateVars, rule_table, retentionVars>>

RulesNext == LoadRules

RulesSpec == RulesInit /\ [][RulesNext]_vars

\* The rows of the table that are active and of the given type.
ActiveOf(type) ==
    {n \in 1..Len(rule_table) : rule_table[n].is_active /\ rule_table[n].rule_type = type}

\* `list` is the default when no active rule of the type exists, and
\* otherwise holds the line of every active rule of the type and no line
\* that is not the line of one.
RulesOfType(list, type, default) ==
    /\ list # <<>>
    /\ ActiveOf(type) = {} => list = default
    /\ ActiveOf(type) # {} =>
          /\ Len(list) = Cardinality(ActiveOf(type))
          /\ \A k \in 1..Len(list) :
                \E n \in ActiveOf(type) : list[k] = <<"- ", rule_table[n].rule_text>>
          /\ \A n \in ActiveOf(type) :
                \E k \in 1..Len(list) : list[k] = <<"- ", rule_table[n].rule_text>>

\* C34: for every content of the rule table load_filter_rules returns a
\* non-empty must_have list and a non-empty must_avoid list: the built-in
\* default list of a type when the table has no active rule of that type,
\* and otherwise the lines of the active rules of that type only; inactive
\* rules and rules of the other types contribute nothing.
C34_RulesNeverEmpty ==
    rules # NoRules =>
        /\ RulesOfType(rules.must_have, "must_have", DEFAULT_MUST_HAVE)
        /\ RulesOfType(rules.must_avoid, "must_avoid", DEFAULT_MUST_AVOID)

\* The table holds an inactive must_have rule and an active must_avoid
\* rule: the result has the default must_have list and the one rule.
C34_Witness ==
    /\ rules # NoRules
    /\ \E n \in 1..Len(rule_table) :
          rule_table[n].rule_type = "must_have" /\ ~rule_table[n].is_active
    /\ ActiveOf("must_avoid") # {}
    /\ rules.must_have = DEFAULT_MUST_HAVE
    /\ Len(rules.must_avoid) = 1

\* The Run under which item i was last claimed.
ClaimRun(i) == IF claims[i] = <<>> THEN NoRun ELSE claims[i][Len(claims[i])]

\* C38: in the worker an item's outcome is atomic with its traces.  Trace
\* rows of an item enter the store only in the step in which a worker
\* commits the item, and that same step writes the item's final filter
\* status and run reference and all the rows of the worker's session, one
\* for every stage call that returned a verdict; so in every committed state
\* an item that is still filtering has no Trace row of the Run it was
\* claimed under, and an item with a run reference has a row of that Run for
\* every stage call of that Run that returned.
C38_OutcomeAtomicWithTraces ==
    [][~deployment.batch =>
          \A i \in DOMAIN articles :
             /\ \A w \in Workers : Finalized(w) /\ article[w] = i =>
                   /\ articles'[i].filter_status \in {"passed", "rejected"}
                   /\ articles'[i].last_run_id = current_run_id[w]
                   /\ traces'[i] = traces[i] \o pending[w]
                   /\ Len(pending[w]) = Cardinality(ReturnedCalls(i))
             /\ traces'[i] # traces[i] => \E w \in Workers : Finalized(w) /\ article[w] = i
             /\ articles'[i].filter_status = "filtering" =>
                   \A k \in 1..Len(traces'[i]) : traces'[i][k].run_id # ClaimRun(i)'
             /\ articles'[i].last_run_id # NoRun =>
                   Cardinality({k \in 1..Len(traces'[i]) :
                                   traces'[i][k].run_id = articles'[i].last_run_id})
                   = Cardinality({k \in 1..Len(invoked'[i]) :
                                     /\ invoked'[i][k].run_id = articles'[i].last_run_id
                                     /\ invoked'[i][k].outcome # "raise"})]_vars

\* A worker has committed an item rejected at Wow Factor, with its run
\* reference and its two rows, while its peer-to-be has not started.
C38_Witness ==
    \E i \in DOMAIN articles :
        /\ articles[i].filter_status = "rejected"
        /\ articles[i].last_run_id # NoRun
        /\ Len(traces[i]) = 2
        /\ \A k \in 1..2 : traces[i][k].run_id = articles[i].last_run_id
        /\ Len(invoked[i]) = 2

\* The row of item i as ingested.
Ingested(i) == IF i = "a1" THEN IngestedRow(7) ELSE IngestedRow(0)

\* What the judge answered for item i, stage by stage.
Answers(i) == [k \in 1..Len(invoked[i]) |-> invoked[i][k].resp]

Outcome(row, status) ==
    [filter_status |-> status, filter_score |-> row.filter_score,
     content_type |-> row.content_type, wow_score |-> row.wow_score]

\* process_article_with_tracing and the loop's status assignment, as a
\* function of the ingested row and of the judge's answers alone.
ProcessedRow(row, answers) ==
    IF answers[1].kind = "raise" THEN Outcome(row, "rejected")
    ELSE IF ~filter_news_check(answers[1]).passed
    THEN Outcome([row EXCEPT !.content_type = filter_news_check(answers[1]).category,
                             !.filter_score = 0], "rejected")
    ELSE IF answers[2].kind = "raise" THEN Outcome(row, "rejected")
    ELSE IF ~filter_wow_factor(answers[2]).passed
    THEN Outcome([row EXCEPT !.wow_score = filter_wow_factor(answers[2]).score,
                             !.content_type = "news_article",
                             !.filter_score = 0], "rejected")
    ELSE IF answers[3].kind = "raise"
    THEN Outcome([row EXCEPT !.wow_score = filter_wow_factor(answers[2]).score], "rejected")
    ELSE Outcome([row EXCEPT !.wow_score = filter_wow_factor(answers[2]).score,
                             !.content_type = "news_article",
                             !.filter_score =
                                 or_default(filter_values_fit(answers[3]).score, 0)],
                 IF filter_values_fit(answers[3]).passed THEN "passed" ELSE "rejected")

\* C32: idempotent restart.  The final filter status, filter score, content
\* type and wow score a worker commits for an item are a function of the
\* item as ingested and of the judge's answers for it alone: they do not
\* depend on the Run, on the worker process, on a process having ended
\* before any claim succeeded and the service having been started again, or
\* on the order in which the items are claimed.  So with judges that answer
\* the same for the same item the restarted run and the run without restart
\* commit the same final state for every item.
C32_IdempotentRestart ==
    [][\A w \in Workers, i \in DOMAIN articles : Finalized(w) /\ article[w] = i =>
          Outcome(articles'[i], articles'[i].filter_status)
              = ProcessedRow(Ingested(i), Answers(i))]_vars

\* The first process ended without a successful claim, the service was
\* started again under a second Run, and the second process has committed
\* the second item as rejected at Wow Factor and now holds the first.
C32_Witness ==
    /\ deployment.serial
    /\ pc["w1"] \in {"crashed", "exited", "failed"}
    /\ \A i \in Items : i \in DOMAIN articles /\ claims[i] = <<2>>
    /\ articles["a2"].last_run_id = 2
    /\ articles["a2"].filter_status = "rejected"
    /\ articles["a2"].wow_score = 3
    /\ article["w2"] = "a1" /\ pc["w2"] = "values_fit"

\* ---------------------------------------------------------------------
\* The retention cleanup beside one worker process.  Time is counted in
\* days up to MaxTime; the worker commits at most MaxCommits items, one
\* Trace row each.  Both sessions run READ COMMITTED: the statements of
\* cleanup_old_traces see what is committed when they run.
DEFAULT_RETENTION_DAYS == 7
MaxTime == 8
MaxCommits == 2

RetentionInit ==
    /\ PipelineInit(NoDeployment)
    /\ TruncateOff
    /\ RulesOff
    /\ now = 0
    /\ pipeline_runs = <<>>
    /\ filter_traces = {}
    /\ article_refs = <<>>
    /\ live = [pc |-> "start", run_id |-> NoRun, commits |-> 0, rejected |-> 0]
    /\ sweep = NoSweep

\* A day passes.
Tick ==
    /\ now < MaxTime
    /\ now' = now + 1
    /\ UNCHANGED <<pipelineVars, truncateVars, rulesVars, pipeline_runs, filter_traces,
                   article_refs, live, sweep>>

\* run_worker_loop, lines 319-326: create_worker_run, status running,
\* started_at now.
LiveStart ==
    /\ live.pc = "start"
    /\ pipeline_runs' = (1 :> [started_at |-> now, status |-> "running"]) @@ pipeline_runs
    /\ live' = [live EXCEPT !.pc = "loop", !.run_id = 1]
    /\ UNCHANGED <<pipelineVars, truncateVars, rulesVars, now, filter_traces, article_refs,
                   sweep>>

\* run_worker_loop, lines 384-387: the item's Trace row (run_id, created_at
\* now) and its last_run_id in one commit.  Both reference the Run: when the
\* Run's row is gone the foreign keys reject the commit.
LiveCommit ==
    /\ live.pc = "loop"
    /\ live.commits < MaxCommits
    /\ IF live.run_id \in DOMAIN pipeline_runs
       THEN /\ filter_traces' = filter_traces \cup
                   {[id |-> live.commits + 1, run_id |-> live.run_id, created_at |-> now]}
            /\ article_refs' = ((live.commits + 1) :> live.run_id) @@ article_refs
            /\ live' = [live EXCEPT !.commits = @ + 1]
       ELSE /\ live' = [live EXCEPT !.commits = @ + 1, !.rejected = @ + 1]
            /\ UNCHANGED <<filter_traces, article_refs>>
    /\ UNCHANGED <<pipelineVars, truncateVars, rulesVars, now, pipeline_runs, sweep>>

\* run_worker_loop, lines 409-415: finalize_run when the Run is found.
LiveFinalize ==
    /\ live.pc = "loop"
    /\ pipeline_runs' = IF live.run_id \in DOMAIN pipeline_runs
                        THEN [pipeline_runs EXCEPT ![live.run_id].status = "completed"]
                        ELSE pipeline_runs
    /\ live' = [live EXCEPT !.pc = "exited"]
    /\ UNCHANGED <<pipelineVars, truncateVars, rulesVars, now, filter_traces, article_refs,
                   sweep>>

\* cleanup_old_traces, lines 50-73: the cutoff, and step 1, the DELETE of
\* the Trace rows created before it (uncommitted until line 90).
DeleteOldTraces(retention_days) ==
    /\ sweep.pc \in {"idle", "done", "failed"}
    /\ sweep' = [pc |-> "traces_deleted", cutoff |-> now - retention_days,
                 deleted |-> {t \in filter_traces : t.created_at < now - retention_days},
                 orphan_runs |-> {}]
    /\ UNCHANGED <<pipelineVars, truncateVars, rulesVars, now, pipeline_runs, filter_traces,
                   article_refs, live>>

\* cleanup_old_traces, lines 79-82: the Runs started before the cutoff that
\* have no Trace row (the session's own deletes count as gone).
FindOrphanRuns ==
    /\ sweep.pc = "traces_deleted"
    /\ sweep' = [sweep EXCEPT
          !.pc = "orphans_found",
          !.orphan_runs =
              {r \in DOMAIN pipeline_runs :
                  /\ pipeline_runs[r].started_at < sweep.cutoff
                  /\ ~\E t \in filter_traces \ sweep.deleted : t.run_id = r}]
    /\ UNCHANGED <<pipelineVars, truncateVars, rulesVars, now, pipeline_runs, filter_traces,
                   article_refs, live>>

\* cleanup_old_traces, lines 84-90: session.delete of every orphan Run and
\* the commit.  The delete of a Run takes its Trace rows with it (the
\* relationship's cascade, models.py 577-581, and ON DELETE CASCADE, 604-608)
\* and sets the last_run_id that reference it to NULL (models.py 148-152).
DeleteRuns ==
    /\ sweep.pc = "orphans_found"
    /\ filter_traces' =
          {t \in filter_traces : t \notin sweep.deleted /\ t.run_id \notin sweep.orphan_runs}
    /\ pipeline_runs' =
          [r \in DOMAIN pipeline_runs \ sweep.orphan_runs |-> pipeline_runs[r]]
    /\ article_refs' = [n \in DOMAIN article_refs |->
                           IF article_refs[n] \in sweep.orphan_runs
                           THEN NoRun ELSE article_refs[n]]
    /\ sweep' = [sweep EXCEPT !.pc = "done"]
    /\ UNCHANGED <<pipelineVars, truncateVars, rulesVars, now, live>>

\* cleanup_old_traces, lines 93-96: a statement raised; rollback.
CleanupRollback ==
    /\ sweep.pc \in {"traces_deleted", "orphans_found"}
    /\ sweep' = [NoSweep EXCEPT !.pc = "failed"]
    /\ UNCHANGED <<pipelineVars, truncateVars, rulesVars, now, pipeline_runs, filter_traces,
                   article_refs, live>>

cleanup_old_traces ==
    \/ \E retention_days \in {1, DEFAULT_RETENTION_DAYS} : DeleteOldTraces(retention_days)
    \/ FindOrphanRuns
    \/ DeleteRuns
    \/ CleanupRollback

RetentionNext ==
    \/ Tick
    \/ LiveStart
    \/ LiveCommit
    \/ LiveFinalize
    \/ cleanup_old_traces

RetentionSpec == RetentionInit /\ [][RetentionNext]_vars

\* C37: a cleanup removes exactly the Trace rows created before its
\* cutoff, and removes a Run only if the Run started before the cutoff and
\* none of its Trace rows remains (all were created before the cutoff);
\* after the cleanup no Trace row references a missing Run; no row created
\* at or after the cutoff is removed.
C37_CleanupRemovesOnlyOldRows ==
    [][sweep.pc = "orphans_found" /\ sweep'.pc = "done" =>
          /\ \A t \in filter_traces :
                t \notin filter_traces' <=> t.created_at < sweep.cutoff
          /\ \A r \in DOMAIN pipeline_runs : r \notin DOMAIN pipeline_runs' =>
                /\ pipeline_runs[r].started_at < sweep.cutoff
                /\ \A t \in filter_traces : t.run_id = r => t.created_at < sweep.cutoff
          /\ \A t \in filter_traces' : t.run_id \in DOMAIN pipeline_runs']_vars

\* C39: a cleanup that runs while a worker is alive never deletes that
\* worker's Run (status running: the worker may still write Trace rows or
\* set an item's run reference), so no commit of the worker is ever
\* rejected for referencing a deleted Run.
C39_LiveRunNeverDeleted ==
    [][/\ \A r \in DOMAIN pipeline_runs :
             /\ live.pc = "loop" /\ live.run_id = r
             /\ pipeline_runs[r].status = "running"
             => r \in DOMAIN pipeline_runs'
       /\ live'.rejected = 0]_vars

====
